---- MODULE Spec2Model ----
(***************************************************************************)
(* Matching & bundling engine and its queue-coordination layer             *)
(* (service20): the SQS transport wrapper, the two consumer loops          *)
(* (MessageHandler.poll_and_process and MatchingAgent.run), the            *)
(* compatibility scorer and the matching orchestrator.                     *)
(*                                                                         *)
(* The specifications of this module:                                      *)
(*   SpecQueue     the transport and the two consumer loops                *)
(*   SpecPoll      poll_and_process as a scheduled task                    *)
(*   SpecParallel  run_all_handlers_parallel on the asyncio event loop     *)
(*   SpecScore     calculate_score and calculate_bundle_metrics            *)
(*   SpecMatch     process_match_request / find_matches / create_bundle    *)
(*   SpecFind      find_matches on large sector buckets                    *)
(* Each specification leaves the variables of the others at their idle     *)
(* values.                                                                 *)
(***************************************************************************)
EXTENDS Integers, Sequences, FiniteSets, TLC

VARIABLES
    \* ---- queue transport (SQS) and consumer loops ----
    queue,        \* queue[l][m]: the message m on the queue polled by loop l
    nextHandle,   \* nextHandle[l]: receipt handles handed out so far on l's queue
    pc,           \* pc[l]: position of loop l ("idle": never started, "poll",
                  \*        "process", "ack", "stopped")
    batch,        \* batch[l]: the parsed messages returned by the last receive
    idx,          \* idx[l]: index in batch[l] of the message being handled
    result,       \* result[l]: how the handler call for batch[l][idx[l]] ended
    iteration,    \* iteration[l]: poll_and_process's iteration counter
    receives,     \* receives[l]: number of receive_messages calls made by l
    transport,    \* transport[l]: how l's last receive_messages call ended
                  \*        ("none" before the first, then a ReceiveOutcomes)
    slept,        \* slept[l]: whether l has been in asyncio.sleep since its
                  \*        last receive_messages call
    \* ---- one call of CompatibilityScorer.calculate_score ----
    in_funder,    \* the funder argument
    in_opps,      \* the opportunities argument (a sequence of alerts)
    scored,       \* << >> before the call, <<result>> after it
    metrics,      \* << >>, or <<calculate_bundle_metrics(in_opps)>> after its call
    \* ---- the matching agent: process_match_request on one match_request ----
    investment_alerts,  \* active investment alerts (service20_alerts rows)
    funding_alerts,     \* active funding alerts
    clock,              \* datetime.utcnow(), in whole seconds
    unique_bundle_id,   \* whether service20_bundles.bundle_id is declared UNIQUE
    bundles,            \* the rows of service20_bundles, in insertion order
    store_faults,       \* writes the store will still fail for reasons of its own
    mpc,                \* position in process_match_request / find_matches
    run,                \* how many times the match_request was processed
    fi,                 \* index of the funder being processed
    oi,                 \* index of the opportunity in the funder's sector bucket
    size,               \* bundle size being searched
    matches_created,    \* find_matches' result list
    score_calls,        \* log: the calculate_score calls of the current run,
                        \* each <<index of the funder, ids of the opportunities>>
    create_calls,       \* log: the create_bundle calls of all runs
    notifications,      \* log: the send_message calls of all runs
    \* ---- run_all_handlers_parallel: three polling tasks on one event loop ----
    max_iterations,     \* << >> for None, or <<the number of iterations>>
    task_pc,            \* task_pc[t]: "idle", "ready", "running", "sleeping", "finished"
    ready,              \* the event loop's queue of tasks ready to run
    task_iteration,     \* task_iteration[t]: the task's iteration counter
    task_receives,      \* task_receives[t]: receive calls of the task, counted
                        \* up to MaxReceives
    \* --- run_daily_matching_job
    all_matches,                \* the list returned by engine.run_matching
    dpc,                        \* "idle", "high", "medium", "completed", "failed"
    di,                         \* index in all_matches of the next match to look at
    opportunity_matches,        \* the rows of the table opportunity_matches
    match_alerts,               \* the rows create_match_alert put in the table alerts
    match_approvals,            \* the messages on the match approvals queue
    high_confidence_processed,  \* the job's counter of that name
    medium_confidence_queued,   \* the job's counter of that name
    job_faults                  \* log: store, alert or send calls that failed

tvars == <<transport, slept>>

qvars == <<queue, nextHandle, pc, batch, idx, result, iteration, receives, tvars>>

svars == <<in_funder, in_opps, scored, metrics>>

mvars == <<investment_alerts, funding_alerts, clock, unique_bundle_id, bundles,
           store_faults, mpc, run, fi, oi, size, matches_created, score_calls,
           create_calls, notifications>>

pvars == <<max_iterations, task_pc, ready, task_iteration, task_receives>>

dvars == <<all_matches, dpc, di, opportunity_matches, match_alerts,
           match_approvals, high_confidence_processed,
           medium_confidence_queued, job_faults>>

vars == <<qvars, svars, mvars, pvars, dvars>>

\* What a step of a consumer loop or of its queue leaves alone.
notqueue == <<svars, mvars, pvars, dvars>>

(***************************************************************************)
(* Bounds                                                                  *)
(***************************************************************************)
MaxMsgs == 2        \* messages ever sent to one queue
MaxHandles == 3     \* receipt handles ever handed out on one queue
MaxIterations == 2  \* the max_iterations argument of poll_and_process
MaxReceives == 3    \* receive calls of the unbounded loop MatchingAgent.run
MaxScoreOpps == 2   \* opportunities passed to one calculate_score call
MaxOpps == 2        \* investment alerts of a run that may be repeated
MaxBucket == 8      \* investment alerts of the run of one funder
MaxClock == 1       \* seconds the clock advances during the runs
MaxMatches == 3     \* matches returned by one run of the matching engine
MaxRuns == 2        \* times the same match_request is processed

(***************************************************************************)
(* Queue transport                                                         *)
(***************************************************************************)
\* The two consumer loops; each polls its own queue and shares no state with
\* the other, so a behaviour follows one started loop and its queue.
PollLoop == "poll_and_process"
RunLoop == "run"
Loops == {PollLoop, RunLoop}

\* MessageType enum values (wire strings).
MessageType ==
    {"investment_opportunity", "funding_opportunity", "research_request",
     "research_complete", "match_request", "match_result", "match_found",
     "match_approval_needed", "match_status_change"}

\* Message types registered on the polling handler
\* (NetZeroInvestmentOpportunityHandler.__init__).
RegisteredTypes == {"investment_opportunity", "research_request"}

\* What a producer may put on the wire of each queue, as <<type, payload,
\* body is JSON>>: a registered type with either payload, a MessageType
\* without handler, a string that is no MessageType, and a body that is not
\* JSON at all.
Payloads == {"p1", "p2"}

WireMessages(l) ==
    IF l = PollLoop
    THEN {<<"investment_opportunity", p, TRUE>> : p \in Payloads}
           \cup {<<"match_status_change", "p1", TRUE>>, <<"bogus", "p1", TRUE>>,
                 <<"", "", FALSE>>}
    ELSE {<<"match_request", p, TRUE>> : p \in Payloads}

MsgIds == 1..MaxMsgs

\* QueueConfig.max_messages: the most messages one receive returns.
max_messages == 10

\* A message of a queue: its body (type, payload, whether it is JSON), and
\* what SQS keeps about it: whether it is visible, in flight or deleted, the
\* receipt handle of its latest receive and its ApproximateReceiveCount; last
\* records what receive_messages returned for it the last time, if anything.
NoMsg ==
    [state |-> "absent", type |-> "", payload |-> "", json_ok |-> TRUE,
     handle |-> 0, receive_count |-> 0, last |-> << >>]

Visible(l) == {m \in MsgIds : queue[l][m].state = "visible"}

\* Sequences without repetition over a finite set (SQS gives no ordering).
Orderings(S) ==
    {s \in [1..Cardinality(S) -> S] : \A i, j \in 1..Cardinality(S) : i # j => s[i] # s[j]}

\* SQSManager.send_message: the envelope {type, payload, timestamp} is put on
\* the queue; on a transport error nothing is sent and None is returned.
\* A body that is not JSON can only come from a foreign producer.
send_message(l) ==
    \E m \in MsgIds, w \in WireMessages(l), sent \in BOOLEAN :
       /\ pc[l] \notin {"idle", "stopped"}
       /\ queue[l][m].state = "absent"
       /\ \A k \in MsgIds : k < m => queue[l][k].state # "absent"
       /\ queue' = IF sent
                   THEN [queue EXCEPT ![l][m] =
                           [state |-> "visible", type |-> w[1], payload |-> w[2],
                            json_ok |-> w[3], handle |-> 0, receive_count |-> 0,
                            last |-> << >>]]
                   ELSE queue
       /\ UNCHANGED <<nextHandle, pc, batch, idx, result, iteration, receives, tvars, notqueue>>

\* A receive that returns the message id in the place of the receipt handle.
ParsedMessageIdAsHandle(l, m, h) ==
    [message_id |-> m, receipt_handle |-> m,
     type |-> queue[l][m].type, payload |-> queue[l][m].payload]

\* The parsed message built by receive_messages from one SQS message.
ParsedMessage(l, m, h) ==
    [message_id |-> m, receipt_handle |-> h,
     type |-> queue[l][m].type, payload |-> queue[l][m].payload]

\* The visibility timeout of an in-flight message runs out before it was
\* deleted: the message is visible again (QueueConfig.visibility_timeout).
visibility_timeout(l) ==
    \E m \in MsgIds :
       /\ pc[l] \notin {"idle", "stopped"}
       /\ queue[l][m].state = "inflight"
       /\ queue' = [queue EXCEPT ![l][m].state = "visible"]
       /\ UNCHANGED <<nextHandle, pc, batch, idx, result, iteration, receives, tvars, notqueue>>

\* The queue after SQS handed out the messages of sequence order, the k-th
\* with receipt handle nextHandle + k.
Received(l, order) ==
    [m \in MsgIds |->
        IF \E k \in 1..Len(order) : order[k] = m
        THEN LET h == nextHandle[l] + (CHOOSE k \in 1..Len(order) : order[k] = m) IN
             [queue[l][m] EXCEPT
                 !.state = "inflight",
                 !.receive_count = @ + 1,
                 !.handle = h,
                 !.last = IF queue[l][m].json_ok THEN <<ParsedMessage(l, m, h)>> ELSE @]
        ELSE queue[l][m]]

\* SQSManager.receive_messages: the parsed messages of one receive call. A
\* message whose body is not JSON is logged and left out of the result.
ParsedMessages(l, order) ==
    LET keep == SelectSeq(order, LAMBDA m : queue[l][m].json_ok)
        pos(m) == CHOOSE k \in 1..Len(order) : order[k] = m
    IN [i \in 1..Len(keep) |-> ParsedMessage(l, keep[i], nextHandle[l] + pos(keep[i]))]

\* SQSManager.delete_message(queue_url, receipt_handle): the queue afterwards.
\* deleted = FALSE is a transport error (logged, returns False); a handle that
\* is no longer the message's latest one leaves the message on the queue.
delete_message(l, msg, deleted) ==
    IF /\ deleted
       /\ queue[l][msg.message_id].state # "deleted"
       /\ queue[l][msg.message_id].handle = msg.receipt_handle
    THEN [queue[l] EXCEPT ![msg.message_id].state = "deleted"]
    ELSE queue[l]

(***************************************************************************)
(* Consumer loops                                                          *)
(***************************************************************************)
\* poll_and_process(queue_url, max_iterations, delete_after_processing=True)
delete_after_processing == TRUE

CurrentMessage(l) == batch[l][idx[l]]

\* How a receive_messages call can end: SQS answered ("ok"); the call to SQS
\* raised BotoCoreError or ClientError, which line 255 catches and answers
\* with the empty list ("failed"); or another exception left
\* receive_messages ("raised").
ReceiveOutcomes == {"ok", "failed", "raised"}

\* The receive at the head of both loops: SQS hands out some of the visible
\* messages, in any order, each with a fresh receipt handle; a call that
\* failed or raised hands out nothing (order = << >>).
Receive(l, order) ==
    /\ nextHandle[l] + Len(order) <= MaxHandles
    /\ queue' = [queue EXCEPT ![l] = Received(l, order)]
    /\ nextHandle' = [nextHandle EXCEPT ![l] = @ + Len(order)]
    /\ batch' = [batch EXCEPT ![l] = ParsedMessages(l, order)]
    /\ receives' = [receives EXCEPT ![l] = @ + 1]
    /\ idx' = [idx EXCEPT ![l] = 1]
    /\ result' = [result EXCEPT ![l] = "none"]

\* A step to the next poll that leaves iteration as it is.
NextIterationUncounted(l) ==
    /\ UNCHANGED iteration
    /\ pc' = [pc EXCEPT ![l] = "poll"]

\* The step after the last message of a batch of poll_and_process.
NextIteration(l) ==
    /\ iteration' = [iteration EXCEPT ![l] = @ + 1]
    /\ pc' = [pc EXCEPT ![l] = "poll"]

\* poll_and_process, lines 90-98 and 116-119: one receive; an empty result
\* counts as an iteration and the loop goes on at once (continue); an
\* exception that left receive_messages is caught at line 116, and the loop
\* sleeps five seconds before it counts the iteration.
poll_receive ==
    LET l == PollLoop IN
    /\ pc[l] = "poll"
    /\ iteration[l] < MaxIterations
    /\ \E call \in ReceiveOutcomes : \E S \in SUBSET Visible(l) : \E order \in Orderings(S) :
          /\ Cardinality(S) <= max_messages
          /\ call # "ok" => order = << >>
          /\ Receive(l, order)
          /\ transport' = [transport EXCEPT ![l] = call]
          /\ slept' = [slept EXCEPT ![l] = (call = "raised")]
          /\ IF ParsedMessages(l, order) = << >>
             THEN NextIteration(l)
             ELSE /\ pc' = [pc EXCEPT ![l] = "process"]
                  /\ UNCHANGED iteration
    /\ UNCHANGED notqueue

\* poll_and_process, line 90: the loop condition fails and the loop ends.
poll_exit ==
    /\ pc[PollLoop] = "poll"
    /\ iteration[PollLoop] >= MaxIterations
    /\ pc' = [pc EXCEPT ![PollLoop] = "stopped"]
    /\ UNCHANGED <<queue, nextHandle, batch, idx, result, iteration, receives, tvars, notqueue>>

\* A process_message that answers with the handler's end whatever the type.
ProcessResultAnyType(msg, handler_end) == handler_end

\* MessageHandler.process_message: what the call does with a message, given
\* how the registered handler would end ("ok" or "raised").
ProcessResult(msg, handler_end) ==
    IF msg.type \notin MessageType THEN "bad_type"          \* ValueError, caught
    ELSE IF msg.type \notin RegisteredTypes THEN "no_handler"
    ELSE handler_end

\* poll_and_process, line 102: success = await self.process_message(message)
poll_process ==
    LET l == PollLoop IN
    /\ pc[l] = "process"
    /\ \E handler_end \in {"ok", "raised"} :
          result' = [result EXCEPT ![l] = ProcessResult(CurrentMessage(l), handler_end)]
    /\ pc' = [pc EXCEPT ![l] = "ack"]
    /\ UNCHANGED <<queue, nextHandle, batch, idx, iteration, receives, tvars, notqueue>>

\* success, as process_message returns it and as run sets it.
success(l) == result[l] = "ok"

\* A delete that no longer looks at the handler's result.
PollDeletesAlways(l) == delete_after_processing

\* Whether the loop calls delete_message for the message just handled.
PollDeletes(l) == success(l) /\ delete_after_processing

RunDeletes(l) == success(l)

\* The acknowledge step shared by both loops: delete_message is called when
\* calls is true; then the loop moves to the next message of the batch.
Acknowledge(l, calls) ==
    /\ \E deleted \in BOOLEAN :
          queue' = [queue EXCEPT ![l] =
                       IF calls THEN delete_message(l, CurrentMessage(l), deleted)
                       ELSE queue[l]]
    /\ idx' = [idx EXCEPT ![l] = @ + 1]
    /\ result' = [result EXCEPT ![l] = "none"]

\* poll_and_process, lines 104-111.
poll_ack ==
    LET l == PollLoop IN
    /\ pc[l] = "ack"
    /\ Acknowledge(l, PollDeletes(l))
    /\ IF idx[l] = Len(batch[l])
       THEN NextIteration(l)
       ELSE /\ pc' = [pc EXCEPT ![l] = "process"]
            /\ UNCHANGED iteration
    /\ UNCHANGED <<nextHandle, batch, receives, tvars, notqueue>>

\* MatchingAgent.run, lines 835-837, 856 and 861-865: one receive; after an
\* empty result the loop sleeps one second and polls again, and after an
\* exception it sleeps poll_interval seconds.
run_receive ==
    LET l == RunLoop IN
    /\ pc[l] = "poll"
    /\ receives[l] < MaxReceives
    /\ \E call \in ReceiveOutcomes : \E S \in SUBSET Visible(l) : \E order \in Orderings(S) :
          /\ Cardinality(S) <= max_messages
          /\ call # "ok" => order = << >>
          /\ Receive(l, order)
          /\ transport' = [transport EXCEPT ![l] = call]
          /\ slept' = [slept EXCEPT ![l] = (ParsedMessages(l, order) = << >>)]
          /\ pc' = [pc EXCEPT ![l] =
                       IF ParsedMessages(l, order) = << >> THEN "poll" ELSE "process"]
    /\ UNCHANGED <<iteration, notqueue>>

\* A run whose for loop catches the exception of process_match_request itself
\* and goes on with the next message of the batch, as poll_and_process does.
run_process_in_loop ==
    LET l == RunLoop IN
    /\ pc[l] = "process"
    /\ \E handler_end \in {"ok", "raised"} :
          /\ result' = [result EXCEPT ![l] = handler_end]
          /\ pc' = [pc EXCEPT ![l] = "ack"]
          /\ UNCHANGED <<batch, idx, slept>>
    /\ UNCHANGED <<queue, nextHandle, iteration, receives, transport, notqueue>>

\* MatchingAgent.run, line 843: success = await self.process_match_request(message).
\* The call returns True or raises; an exception leaves the for loop, is
\* logged by the except branch (lines 861-865) and the loop polls again
\* after poll_interval seconds.
run_process ==
    LET l == RunLoop IN
    /\ pc[l] = "process"
    /\ \E handler_end \in {"ok", "raised"} :
          IF handler_end = "ok"
          THEN /\ result' = [result EXCEPT ![l] = "ok"]
               /\ pc' = [pc EXCEPT ![l] = "ack"]
               /\ UNCHANGED <<batch, idx, slept>>
          ELSE /\ result' = [result EXCEPT ![l] = "raised"]
               /\ pc' = [pc EXCEPT ![l] = "poll"]
               /\ batch' = [batch EXCEPT ![l] = << >>]
               /\ idx' = [idx EXCEPT ![l] = 1]
               /\ slept' = [slept EXCEPT ![l] = TRUE]
    /\ UNCHANGED <<queue, nextHandle, iteration, receives, transport, notqueue>>

\* MatchingAgent.run, lines 846-856.
run_ack ==
    LET l == RunLoop IN
    /\ pc[l] = "ack"
    /\ Acknowledge(l, RunDeletes(l))
    /\ pc' = [pc EXCEPT ![l] = IF idx[l] = Len(batch[l]) THEN "poll" ELSE "process"]
    /\ slept' = [slept EXCEPT ![l] = (idx[l] = Len(batch[l]))]
    /\ UNCHANGED <<nextHandle, batch, iteration, receives, transport, notqueue>>

\* KeyboardInterrupt while the loop waits in its receive: both loops break.
KeyboardInterrupt(l) ==
    /\ pc[l] = "poll"
    /\ pc' = [pc EXCEPT ![l] = "stopped"]
    /\ UNCHANGED <<queue, nextHandle, batch, idx, result, iteration, receives, tvars, notqueue>>

(***************************************************************************)
(* Scores as IEEE-754 doubles                                              *)
(*                                                                         *)
(* calculate_score adds five products of double literals. A double x is    *)
(* held as [v, d] with x = v / 10^4 + d / (625 * 2^57): v is the decimal   *)
(* value in ten-thousandths and d the (small) distance of the double from  *)
(* it. Every double met here is a multiple of 2^-57, so d is an integer.   *)
(***************************************************************************)
Dbl(v, d) == [v |-> v, d |-> d]

\* x >= y and x > y on doubles: v decides, and d among equal v.
FGe(x, y) == x.v > y.v \/ (x.v = y.v /\ x.d >= y.d)
FGt(x, y) == x.v > y.v \/ (x.v = y.v /\ x.d > y.d)

RECURSIVE Pow2(_)
Pow2(n) == IF n = 0 THEN 1 ELSE 2 * Pow2(n - 1)

\* 2^n modulo 625; 2^10 = 1024.
RECURSIVE Pow2Mod625(_)
Pow2Mod625(n) == IF n < 10 THEN Pow2(n) % 625 ELSE (1024 * Pow2Mod625(n - 10)) % 625

\* x + y on doubles: the exact sum rounded to the nearest double, ties to
\* even. The spacing of the doubles around the sum is 625 * 2^k units of d,
\* with k = 5 in [1, 2), 4 in [1/2, 1), ... 0 below 1/16.
FAdd(x, y) ==
    LET v == x.v + y.v
        d == x.d + y.d
        AtLeast(j) == v * Pow2(j) > 10000 \/ (v * Pow2(j) = 10000 /\ d >= 0)
        k == IF AtLeast(0) THEN 5 ELSE IF AtLeast(1) THEN 4 ELSE IF AtLeast(2) THEN 3
             ELSE IF AtLeast(3) THEN 2 ELSE IF AtLeast(4) THEN 1 ELSE 0
        g == 625 * Pow2(k)
        \* (v * 2^53 + d) modulo 2g
        r2 == (Pow2(k + 1) * (((v % 625) * Pow2Mod625(52 - k)) % 625) + d) % (2 * g)
        r == r2 % g
        odd == r2 >= g
    IN  IF x.v = 0 /\ x.d = 0 THEN y
        ELSE IF y.v = 0 /\ y.d = 0 THEN x
        ELSE IF r = 0 THEN Dbl(v, d)
        ELSE IF 2 * r < g \/ (2 * r = g /\ ~odd) THEN Dbl(v, d - r)
        ELSE Dbl(v, d + (g - r))

\* The double literals of the sub-scores, by their value in hundredths;
\* 49, 21 and 56 are 0.7 * 0.7, 0.3 * 0.7 and 0.8 * 0.7 (score *= 0.7).
\* Product(s, w) is the double s * w for sub-score s and weight w, both in
\* hundredths: v = s * w, and d as IEEE-754 multiplication rounds it.
ProductDev(s, w) ==
    CASE w = 30 -> (CASE s = 50 -> -500 [] s = 100 -> -1000 [] s = 60 -> -600
                      [] s = 70 -> -700 [] s = 20 -> -200)
      [] w = 25 -> (CASE s = 100 -> 0 [] s = 70 -> -1000 [] s = 30 -> -250
                      [] s = 80 -> 1000 [] s = 49 -> -1450 [] s = 21 -> -175
                      [] s = 56 -> -1300)
      [] w = 20 -> (CASE s = 100 -> 1000 [] s = 60 -> -400 [] s = 70 -> -1300)
      [] w = 15 -> (CASE s = 100 -> -500 [] s = 90 -> 800 [] s = 60 -> -300
                      [] s = 30 -> -150)
      [] w = 10 -> (CASE s = 100 -> 500 [] s = 70 -> -650)

Product(s, w) == Dbl(s * w, ProductDev(s, w))

\* The double literals 0.60 and 0.80 of the thresholds, and 0 and 1.0.
Threshold060 == Dbl(6000, -2000)
Threshold080 == Dbl(8000, 4000)
Zero == Dbl(0, 0)
One == Dbl(10000, 0)

\* The sum calculate_score builds: score = 0.0, then score += sub * weight
\* five times, in this order.
sector_weight == 30
financial_weight == 25
timeline_weight == 20
roi_weight == 15
technical_weight == 10

\* A sum that adds the sector term a second time where the technical term
\* belongs (the weights then add up to 1.2).
WeightedSumSectorTwice(sector, financial, timeline, roi, tech) ==
    FAdd(FAdd(FAdd(FAdd(FAdd(Zero, Product(sector, sector_weight)),
                        Product(financial, financial_weight)),
                   Product(timeline, timeline_weight)),
              Product(roi, roi_weight)),
         Product(sector, sector_weight))

\* A sum that weights the technical term as the timeline term (the weights
\* then add up to 1.1).
WeightedSumTechAsTimeline(sector, financial, timeline, roi, tech) ==
    FAdd(FAdd(FAdd(FAdd(FAdd(Zero, Product(sector, sector_weight)),
                        Product(financial, financial_weight)),
                   Product(timeline, timeline_weight)),
              Product(roi, roi_weight)),
         Product(tech, timeline_weight))

WeightedSum(sector, financial, timeline, roi, tech) ==
    FAdd(FAdd(FAdd(FAdd(FAdd(Zero, Product(sector, sector_weight)),
                        Product(financial, financial_weight)),
                   Product(timeline, timeline_weight)),
              Product(roi, roi_weight)),
         Product(tech, technical_weight))

(***************************************************************************)
(* Alerts and the compatibility scorer                                     *)
(***************************************************************************)
\* An alert, as get_active_alerts builds it, with the criteria fields the
\* matching reads. A key that may be absent is << >> when absent and <<x>>
\* when it holds x; Get is dict.get(key, default).
\*   id, research_id              row id and the originating research record
\*   sector                       alert['sector'], joined from the research row
\*   c_sector                     criteria.sector.primary
\*   amount, minimum_required,
\*   roi_expected                 criteria.financial.*
\*   execution_start              criteria.timeline.execution_start
\*   technology                   criteria.technical.technology
Get(o, default) == IF o = << >> THEN default ELSE o[1]

\* str.lower() on the sector names of the model.
Lower(str) == IF str = "Solar_Energy" THEN "solar_energy" ELSE str

\* s[:4] and len(s) >= 4 on the execution_start strings of the model.
Prefix4(str) ==
    CASE str = "2025-03-01" -> "2025"
      [] str = "2025-09-01" -> "2025"
      [] str = "2026-01-15" -> "2026"
      [] OTHER -> str

HasLen4(str) == str \in {"2025-03-01", "2025-09-01", "2026-01-15"}

RECURSIVE SumSeq(_)
SumSeq(q) == IF q = << >> THEN 0 ELSE Head(q) + SumSeq(Tail(q))

Range(q) == {q[i] : i \in 1..Len(q)}

\* sum(opp.criteria.financial.amount for opp in opportunities)
TotalInvestment(opportunities) ==
    SumSeq([i \in 1..Len(opportunities) |-> Get(opportunities[i].amount, 0)])

\* CompatibilityScorer._score_sector_alignment; scores in hundredths.
related_sectors(primary) ==
    CASE primary = "renewable_energy" -> {"solar_energy", "wind_energy", "energy_storage"}
      [] primary = "solar_energy" -> {"renewable_energy"}
      [] primary = "wind_energy" -> {"renewable_energy"}
      [] primary = "energy_storage" -> {"renewable_energy", "solar_energy", "wind_energy"}
      [] OTHER -> {}

OppSector(opp) ==
    LET sector == Lower(Get(opp.sector, ""))
    IN  IF sector = "" THEN Lower(Get(opp.c_sector, "")) ELSE sector

score_sector_alignment(funder, opportunities) ==
    LET funder_primary == Lower(Get(funder.c_sector, ""))
        opp_sectors == [i \in 1..Len(opportunities) |-> OppSector(opportunities[i])]
        all_match == \A i \in 1..Len(opp_sectors) :
                        opp_sectors[i] # "" => opp_sectors[i] = funder_primary
        any_match == \E i \in 1..Len(opp_sectors) : opp_sectors[i] = funder_primary
    IN  IF funder_primary = "" THEN [score |-> 50, criteria |-> <<"sector_unknown">>]
        ELSE IF all_match THEN [score |-> 100, criteria |-> <<"sector_perfect_match">>]
        ELSE IF any_match THEN [score |-> 60, criteria |-> <<"sector_partial_match">>]
        ELSE IF \E i \in 1..Len(opp_sectors) :
                   opp_sectors[i] \in related_sectors(funder_primary)
             THEN [score |-> 70, criteria |-> <<"sector_related_match">>]
        ELSE [score |-> 20, criteria |-> <<"sector_mismatch">>]

\* A scorer with no branch for a funder that names no minimum: the scale
\* check runs with minimum_required = 0 and is always met.
FinancialFitNoDefault(funder, opportunities) ==
    LET total_investment == TotalInvestment(opportunities)
        minimum_required == Get(funder.minimum_required, 0)
        funding_available == Get(funder.amount, 0)
        scale ==
           IF total_investment >= minimum_required
           THEN [score |-> 100, criteria |-> <<"minimum_scale_met">>, warnings |-> << >>]
           ELSE IF total_investment * 10 >= minimum_required * 8
           THEN [score |-> 70, criteria |-> <<"minimum_scale_nearly_met">>,
                 warnings |-> <<"slightly below minimum">>]
           ELSE [score |-> 30, criteria |-> << >>,
                 warnings |-> <<"well below minimum">>]
        Penalised(sc) == CASE sc = 100 -> 70 [] sc = 70 -> 49 [] sc = 30 -> 21
    IN  IF funding_available > 0
        THEN IF total_investment <= funding_available
             THEN [scale EXCEPT !.criteria = @ \o <<"within_funding_capacity">>]
             ELSE IF total_investment * 10 <= funding_available * 12
             THEN [scale EXCEPT !.warnings = @ \o <<"slightly exceeds available">>]
             ELSE [scale EXCEPT !.warnings = @ \o <<"significantly exceeds available">>,
                                !.score = Penalised(@)]
        ELSE scale

\* CompatibilityScorer._score_financial_fit. The comparisons with
\* minimum_required * 0.8 and funding_available * 1.2 are made on tenths; for
\* the whole-dollar amounts of the model the doubles compare alike.
score_financial_fit(funder, opportunities) ==
    LET total_investment == TotalInvestment(opportunities)
        minimum_required == Get(funder.minimum_required, 0)
        funding_available == Get(funder.amount, 0)
        scale ==
           IF minimum_required > 0
           THEN IF total_investment >= minimum_required
                THEN [score |-> 100, criteria |-> <<"minimum_scale_met">>, warnings |-> << >>]
                ELSE IF total_investment * 10 >= minimum_required * 8
                THEN [score |-> 70, criteria |-> <<"minimum_scale_nearly_met">>,
                      warnings |-> <<"slightly below minimum">>]
                ELSE [score |-> 30, criteria |-> << >>,
                      warnings |-> <<"well below minimum">>]
           ELSE [score |-> 80, criteria |-> << >>, warnings |-> << >>]
        \* score *= 0.7 on the doubles 1.0, 0.7, 0.3, 0.8
        Penalised(sc) == CASE sc = 100 -> 70 [] sc = 70 -> 49 [] sc = 30 -> 21 [] sc = 80 -> 56
    IN  IF funding_available > 0
        THEN IF total_investment <= funding_available
             THEN [scale EXCEPT !.criteria = @ \o <<"within_funding_capacity">>]
             ELSE IF total_investment * 10 <= funding_available * 12
             THEN [scale EXCEPT !.warnings = @ \o <<"slightly exceeds available">>]
             ELSE [scale EXCEPT !.warnings = @ \o <<"significantly exceeds available">>,
                                !.score = Penalised(@)]
        ELSE scale

\* CompatibilityScorer._score_timeline_compatibility
score_timeline_compatibility(funder, opportunities) ==
    LET execution_starts ==
           SelectSeq([i \in 1..Len(opportunities) |->
                         Get(opportunities[i].execution_start, "")],
                     LAMBDA str : str # "")
        years == {Prefix4(str) : str \in {t \in Range(execution_starts) : HasLen4(t)}}
    IN  IF Len(execution_starts) >= 2
        THEN IF Cardinality(years) = 1
             THEN [score |-> 100, criteria |-> <<"timeline_aligned">>, warnings |-> << >>]
             ELSE [score |-> 60, criteria |-> << >>,
                   warnings |-> <<"Project timelines span multiple years">>]
        ELSE [score |-> 70, criteria |-> << >>, warnings |-> << >>]

\* CompatibilityScorer._score_roi_expectations. blended_roi is
\* weighted_roi / total_investment, or 0 when total_investment is 0; its
\* comparisons with funder_roi_min (times 1.2, times 0.8) are made after
\* multiplying through by total_investment and 10.
score_roi_expectations(funder, opportunities) ==
    LET total_investment == TotalInvestment(opportunities)
        weighted_roi ==
           SumSeq([i \in 1..Len(opportunities) |->
                      Get(opportunities[i].amount, 0) * Get(opportunities[i].roi_expected, 0)])
        funder_roi_min == Get(funder.roi_expected, 0)
        \* blended_roi >= funder_roi_min * tenths / 10
        BlendedAtLeast(tenths) ==
           IF total_investment > 0
           THEN weighted_roi * 10 >= funder_roi_min * tenths * total_investment
           ELSE 0 >= funder_roi_min * tenths
    IN  IF BlendedAtLeast(10)
        THEN IF BlendedAtLeast(12)
             THEN [score |-> 100, criteria |-> <<"roi_acceptable", "roi_exceeds_expectations">>]
             ELSE [score |-> 90, criteria |-> <<"roi_acceptable">>]
        ELSE IF BlendedAtLeast(8)
        THEN [score |-> 60, criteria |-> <<"roi_nearly_acceptable">>]
        ELSE [score |-> 30, criteria |-> << >>]

\* CompatibilityScorer._score_technical_compatibility
score_technical_compatibility(funder, opportunities) ==
    LET unique_tech == {Get(opportunities[i].technology, "") : i \in 1..Len(opportunities)}
                          \ {""}
    IN  IF Cardinality(unique_tech) <= 1
        THEN [score |-> 100, criteria |-> <<"technology_consistent">>]
        ELSE [score |-> 70, criteria |-> <<"mixed_technologies">>]

\* CompatibilityScorer.calculate_score(funder, opportunities): the score (a
\* double), the five sub-scores (hundredths), criteria_met and warnings.
calculate_score(funder, opportunities) ==
    LET sector == score_sector_alignment(funder, opportunities)
        financial == score_financial_fit(funder, opportunities)
        timeline == score_timeline_compatibility(funder, opportunities)
        roi == score_roi_expectations(funder, opportunities)
        tech == score_technical_compatibility(funder, opportunities)
    IN  [score |-> WeightedSum(sector.score, financial.score, timeline.score,
                               roi.score, tech.score),
         sub |-> [sector |-> sector.score, financial |-> financial.score,
                  timeline |-> timeline.score, roi |-> roi.score,
                  technical |-> tech.score],
         criteria_met |-> sector.criteria \o financial.criteria \o timeline.criteria
                             \o roi.criteria \o tech.criteria,
         warnings |-> financial.warnings \o timeline.warnings]

(***************************************************************************)
(* BundleAnalyzer.calculate_bundle_metrics                                 *)
(***************************************************************************)
\* weighted_roi: the sum of amount * roi over the opportunities.
WeightedRoi(opportunities) ==
    SumSeq([i \in 1..Len(opportunities) |->
               Get(opportunities[i].amount, 0) * Get(opportunities[i].roi_expected, 0)])

\* floor(log2(n / d)), for n > 0 and d > 0.
RECURSIVE Log2Floor(_, _)
Log2Floor(n, d) ==
    IF n >= 2 * d THEN Log2Floor(n, 2 * d) + 1
    ELSE IF n < d THEN Log2Floor(2 * n, d) - 1
    ELSE 0

\* Whether the double nearest to n / 200 is below n / 200, for n > 0 not a
\* multiple of 25 (otherwise n / 200 is a double).  With L = floor(log2(n/200))
\* the doubles around n / 200 are the multiples of 2^(L - 52), and
\* n / 200 = (n * 2^(49 - L) / 25) * 2^(L - 52); 2^20 = 1 modulo 25.
DoubleBelow(n) ==
    2 * (((n % 25) * (Pow2((49 - Log2Floor(n, 200)) % 20) % 25)) % 25) < 25

\* round(w / t, 2) in hundredths, for integers w >= 0 and t > 0: the float
\* quotient, rounded to 2 decimals correctly, a tie going to the even digit.
\* The quotient is a tie of round only if it is the double of a real tie.
Round2(w, t) ==
    LET h == 100 * (w \div t) + (100 * (w % t)) \div t
        rem == (100 * (w % t)) % t
    IN  IF 2 * rem < t THEN h
        ELSE IF 2 * rem > t THEN h + 1
        ELSE IF (2 * h + 1) % 25 = 0 THEN (IF h % 2 = 0 THEN h ELSE h + 1)
        ELSE IF DoubleBelow(2 * h + 1) THEN h ELSE h + 1

\* Metrics whose blended_roi is the plain mean of the ROIs.
BundleMetricsMeanRoi(opportunities) ==
    [total_investment |-> TotalInvestment(opportunities),
     blended_roi |-> IF TotalInvestment(opportunities) > 0
                     THEN Round2(SumSeq([i \in 1..Len(opportunities) |->
                                            Get(opportunities[i].roi_expected, 0)]),
                                 Len(opportunities))
                     ELSE 0,
     opportunity_count |-> Len(opportunities)]

\* Metrics that divide by total_investment whatever it is; -1 stands for the
\* ZeroDivisionError of a division by 0.
BundleMetricsUnguarded(opportunities) ==
    [total_investment |-> TotalInvestment(opportunities),
     blended_roi |-> IF TotalInvestment(opportunities) # 0
                     THEN Round2(WeightedRoi(opportunities), TotalInvestment(opportunities))
                     ELSE -1,
     opportunity_count |-> Len(opportunities)]

\* The metrics of a bundle that the alerts of the model determine;
\* blended_roi in hundredths.
calculate_bundle_metrics(opportunities) ==
    [total_investment |-> TotalInvestment(opportunities),
     blended_roi |-> IF TotalInvestment(opportunities) > 0
                     THEN Round2(WeightedRoi(opportunities), TotalInvestment(opportunities))
                     ELSE 0,
     opportunity_count |-> Len(opportunities)]

(***************************************************************************)
(* The alerts of the model                                                 *)
(***************************************************************************)
Alert(id, sector, c_sector, amount, minimum_required, roi_expected, execution_start, technology) ==
    [id |-> id, sector |-> sector, c_sector |-> c_sector, amount |-> amount,
     minimum_required |-> minimum_required, roi_expected |-> roi_expected,
     execution_start |-> execution_start, technology |-> technology,
     nulls |-> {}]

\* The alert whose criteria document holds null (None once parsed) under the
\* given keys of criteria.financial.
WithNulls(alert, keys) == [alert EXCEPT !.nulls = keys]

\* calculate_score has no except clause: with None for one of the funder's
\* financial numbers, minimum_required > 0 (line 192), funding_available > 0
\* (line 207) or blended_roi >= funder_roi_min (line 277) raises TypeError,
\* and the call returns no score.
Raises(funder, opportunities) ==
    funder.nulls \cap {"minimum_required", "amount", "roi_expected"} # {}

\* Where an opportunity's sector is found: on the alert (research join), in
\* the criteria only (mixed case), or on the alert for another sector.
OppSectorProfiles ==
    {<< <<"solar_energy">>, << >> >>,
     << << >>, <<"Solar_Energy">> >>,
     << <<"wind_energy">>, <<"wind_energy">> >>}

\* amount, roi_expected, execution_start, technology of an opportunity.
OppDetailProfiles ==
    {<< <<500000>>, <<18>>, <<"2025-03-01">>, <<"pv">> >>,
     << <<600000>>, <<17>>, <<"2025-09-01">>, <<"pv">> >>,
     << <<200000>>, <<8>>, <<"2026-01-15">>, <<"csp">> >>,
     << <<800000>>, <<12>>, <<"Q3">>, << >> >>,
     << << >>, << >>, << >>, << >> >>}

\* The opportunities of every sector and detail profile, a solar opportunity
\* with amount 0, and an opportunity with no sector anywhere.
OpportunityAlerts ==
    {Alert(0, sp[1], sp[2], dp[1], << >>, dp[2], dp[3], dp[4]) :
        sp \in OppSectorProfiles, dp \in OppDetailProfiles}
    \cup {Alert(0, <<"solar_energy">>, << >>, <<0>>, << >>, <<12>>, <<"2025-03-01">>, <<"pv">>),
          Alert(0, << >>, << >>, <<500000>>, << >>, <<18>>, <<"2025-03-01">>, <<"pv">>)}

\* Funders: criteria.sector.primary, financial.minimum_required,
\* financial.amount (funding available) and financial.roi_expected, each
\* present or absent.
FunderAlerts ==
    {Alert(0, << >>, cs, am, mr, roi, << >>, << >>) :
        cs \in {<< >>, <<"solar_energy">>, <<"renewable_energy">>, <<"transport">>},
        am \in {<< >>, <<1000000>>},
        mr \in {<< >>, <<1000000>>},
        roi \in {<< >>, <<10>>, <<20>>}}

SeqsUpTo(S, n) == UNION {[1..k -> S] : k \in 0..n}

(***************************************************************************)
(* Matching orchestrator: find_matches and create_bundle                   *)
(***************************************************************************)
\* MatchingAgent.__init__: self.max_bundle_size
max_bundle_size == 5

\* find_matches, lines 657-662: the key under which an opportunity is
\* grouped, and the bucket of a key (in the order of investment_alerts).
GroupSector(opp) ==
    Lower(IF opp.sector # << >> THEN opp.sector[1] ELSE Get(opp.c_sector, "unknown"))

opportunities_by_sector(sector) ==
    SelectSeq(investment_alerts, LAMBDA opp : GroupSector(opp) = sector)

\* find_matches, lines 670-675, for the funder at index f.
FunderSector(f) == Lower(Get(funding_alerts[f].c_sector, ""))
minimum_investment(f) == Get(funding_alerts[f].minimum_required, 0)
sector_opportunities(f) == opportunities_by_sector(FunderSector(f))

\* The one value of a set {body : x \in {value}}: body with x bound to a
\* value that is computed once.
Once(S) == CHOOSE y \in S : TRUE

\* itertools.combinations(range(lo, n + 1), k): the increasing index tuples,
\* in lexicographic order.
RECURSIVE Combinations(_, _, _)
RECURSIVE CombinationsFrom(_, _, _)
CombinationsFrom(i, n, k) ==
    \* the tuples whose first index is i, i + 1, ..., in this order
    IF i > n - k + 1 THEN << >>
    ELSE Once({[j \in 1..Len(rest) |-> <<i>> \o rest[j]] :
                  rest \in {Combinations(i + 1, n, k - 1)}})
         \o CombinationsFrom(i + 1, n, k)
Combinations(lo, n, k) ==
    IF k = 0 THEN << << >> >> ELSE CombinationsFrom(lo, n, k)

\* The opportunities of a bucket at the indices of a combination.
Combo(bucket, indices) == [j \in 1..Len(indices) |-> bucket[indices[j]]]

\* find_matches, lines 716-717: the combination is skipped before scoring.
BelowMinimum(combo, minimum) == TotalInvestment(combo) * 10 < minimum * 8

\* The ids of a list of alerts, and the investment alerts of a list of ids.
Ids(alerts_) == [j \in 1..Len(alerts_) |-> alerts_[j].id]
Opportunities(ids) == [j \in 1..Len(ids) |-> investment_alerts[ids[j]]]

\* A threshold of 0.50.
AboveHalf(score) == FGe(score, Dbl(5000, 0))

\* find_matches, lines 684 and 724: score >= 0.60
Qualifies(score) == FGe(score, Threshold060)

\* find_matches, lines 705-731: the loop over the combinations of one size.
\* The state of the loop is best (<< >> or <<best_bundle>>), best_score and
\* the combinations scored so far.  BestBundleStep is one iteration.
\* An iteration that keeps every qualifying combination, whatever the best
\* score so far.
BestBundleScoredLatest(combo, r, acc) ==
    IF Qualifies(r.score)
    THEN [best |-> <<[opportunities |-> combo, score |-> r.score,
                      criteria_met |-> r.criteria_met, warnings |-> r.warnings]>>,
          best_score |-> r.score,
          scored |-> acc.scored \cup {Ids(combo)}]
    ELSE [acc EXCEPT !.scored = @ \cup {Ids(combo)}]

BestBundleScored(combo, r, acc) ==
    IF Qualifies(r.score) /\ FGt(r.score, acc.best_score)
    THEN [best |-> <<[opportunities |-> combo, score |-> r.score,
                      criteria_met |-> r.criteria_met, warnings |-> r.warnings]>>,
          best_score |-> r.score,
          scored |-> acc.scored \cup {Ids(combo)}]
    ELSE [acc EXCEPT !.scored = @ \cup {Ids(combo)}]

\* An iteration that scores every combination, whatever its investment.
BestBundleStepUnfiltered(f, combo, acc) ==
    Once({BestBundleScored(combo, r, acc) :
             r \in {calculate_score(funding_alerts[f], combo)}})

BestBundleStep(f, combo, acc) ==
    IF BelowMinimum(combo, minimum_investment(f))
    THEN acc
    ELSE Once({BestBundleScored(combo, r, acc) :
                  r \in {calculate_score(funding_alerts[f], combo)}})

\* The iterations lo..hi of the loop, run from the loop state acc: the
\* iterations lo..mid, then the iterations mid + 1..hi.
RECURSIVE BestBundleLoop(_, _, _, _, _, _)
BestBundleLoop(f, bucket, combos, lo, hi, acc) ==
    IF lo > hi THEN acc
    ELSE IF lo = hi THEN BestBundleStep(f, Combo(bucket, combos[lo]), acc)
    ELSE Once({BestBundleLoop(f, bucket, combos, (lo + hi) \div 2 + 1, hi, half) :
                  half \in {BestBundleLoop(f, bucket, combos, lo, (lo + hi) \div 2, acc)}})

BestBundle(f, sz) ==
    Once({Once({BestBundleLoop(f, bucket, combos, 1, Len(combos),
                               [best |-> << >>, best_score |-> Zero, scored |-> {}]) :
                   combos \in {Combinations(1, Len(bucket), sz)}}) :
             bucket \in {sector_opportunities(f)}})

\* find_matches, line 704: range(2, min(len(sector_opportunities) + 1,
\* self.max_bundle_size + 1)) holds sz.
Min(a, b) == IF a < b THEN a ELSE b

\* A range that stops at the size of the bucket only.
InSizeRangeOfBucket(f, sz) ==
    sz >= 2 /\ sz < Len(sector_opportunities(f)) + 1

InSizeRange(f, sz) ==
    sz >= 2 /\ sz < Min(Len(sector_opportunities(f)) + 1, max_bundle_size + 1)

\* create_bundle, lines 508-510: f"bundle-{timestamp}-{len(opportunities)}opp"
BundleId(timestamp, opps) == [timestamp |-> timestamp, count |-> Len(opps)]

\* Levels that start above 0.80 and above 0.60.
ConfidenceLevelStrict(score) ==
    IF FGt(score, Threshold080) THEN "high"
    ELSE IF FGt(score, Threshold060) THEN "medium"
    ELSE "low"

\* create_bundle, lines 533-539
ConfidenceLevel(score) ==
    IF FGe(score, Threshold080) THEN "high"
    ELSE IF FGe(score, Threshold060) THEN "medium"
    ELSE "low"

\* create_bundle, lines 556-610: the INSERT. It fails when bundle_id is
\* UNIQUE and a row with this bundle_id exists, or when the store fails
\* (store_ok = FALSE); then the exception is logged and None is returned.
InsertSucceeds(bundle_id, store_ok) ==
    /\ store_ok
    /\ ~ (unique_bundle_id /\ \E i \in 1..Len(bundles) : bundles[i].bundle_id = bundle_id)

BundleRow(opps, fund, score, bundle_id) ==
    [bundle_id |-> bundle_id,
     opportunity_ids |-> Ids(opps),
     opportunity_count |-> Len(opps),
     compatibility_score |-> score,
     confidence_level |-> ConfidenceLevel(score),
     status |-> "proposed",
     matched_funder_id |-> fund.id,
     run |-> run]

\* A find_matches that appends the match whatever create_bundle returned.
CreateBundleKeepsFailed(opps, fund, score, type, store_ok) ==
    LET bundle_id == BundleId(clock, opps)
        ok == InsertSucceeds(bundle_id, store_ok)
    IN  /\ bundles' = IF ok THEN Append(bundles, BundleRow(opps, fund, score, bundle_id))
                      ELSE bundles
        /\ matches_created' =
              Append(matches_created,
                     [bundle_id |-> bundle_id, type |-> type,
                      opportunities |-> Len(opps), score |-> score,
                      confidence |-> IF FGe(score, Threshold080)
                                     THEN "high" ELSE "medium"])
        /\ create_calls' =
              Append(create_calls,
                     [run |-> run, funder |-> fund.id,
                      opportunity_ids |-> Ids(opps),
                      score |-> score, bundle_id |-> bundle_id, type |-> type,
                      existed |-> \E i \in 1..Len(bundles) : bundles[i].bundle_id = bundle_id,
                      ok |-> ok])
        /\ store_faults' = IF store_ok THEN store_faults ELSE store_faults - 1

\* One create_bundle call and what find_matches does with its result
\* (lines 687-697 and 735-749): the row is inserted and the match appended,
\* or the failure is logged and the candidate dropped.
CreateBundle(opps, fund, score, type, store_ok) ==
    LET bundle_id == BundleId(clock, opps)
        ok == InsertSucceeds(bundle_id, store_ok)
    IN  /\ bundles' = IF ok THEN Append(bundles, BundleRow(opps, fund, score, bundle_id))
                      ELSE bundles
        /\ matches_created' =
              IF ok
              THEN Append(matches_created,
                          [bundle_id |-> bundle_id, type |-> type,
                           opportunities |-> Len(opps), score |-> score,
                           confidence |-> IF FGe(score, Threshold080)
                                          THEN "high" ELSE "medium"])
              ELSE matches_created
        /\ create_calls' =
              Append(create_calls,
                     [run |-> run, funder |-> fund.id,
                      opportunity_ids |-> Ids(opps),
                      score |-> score, bundle_id |-> bundle_id, type |-> type,
                      existed |-> \E i \in 1..Len(bundles) : bundles[i].bundle_id = bundle_id,
                      ok |-> ok])
        /\ store_faults' = IF store_ok THEN store_faults ELSE store_faults - 1

NoCreate == UNCHANGED <<bundles, matches_created, create_calls, store_faults>>

\* What a step of the matching agent leaves alone.
notmatch == <<qvars, svars, pvars, dvars>>
alerts == <<investment_alerts, funding_alerts, unique_bundle_id>>

\* A run whose get_active_alerts no longer returns the investment alerts
\* that an earlier run bundled (their status having left 'active').
StartProcessingConsumes ==
    /\ matches_created' = << >>
    /\ score_calls' = {}
    /\ fi' = 1 /\ oi' = 1 /\ size' = 2
    /\ mpc' = IF Len(funding_alerts) = 0 \/ Len(investment_alerts) = 0
              THEN "done" ELSE "funder"
    /\ investment_alerts' =
          SelectSeq(investment_alerts,
                    LAMBDA a : \A k \in 1..Len(bundles) :
                                  a.id \notin Range(bundles[k].opportunity_ids))
    /\ UNCHANGED <<funding_alerts, unique_bundle_id, clock, bundles, store_faults,
                   create_calls, notifications, notmatch>>

\* process_match_request, lines 768-775: get_active_alerts; with no funding
\* alert or no investment alert it returns True at once.  Otherwise
\* find_matches starts with an empty matches_created.
StartProcessing ==
    /\ matches_created' = << >>
    /\ score_calls' = {}
    /\ fi' = 1 /\ oi' = 1 /\ size' = 2
    /\ mpc' = IF Len(funding_alerts) = 0 \/ Len(investment_alerts) = 0
              THEN "done" ELSE "funder"
    /\ UNCHANGED <<alerts, clock, bundles, store_faults, create_calls, notifications, notmatch>>

process_match_request ==
    /\ mpc = "idle"
    /\ run' = 1
    /\ StartProcessing

\* MatchingAgent.run: the match_request is received and processed again
\* (a redelivery after the visibility timeout, or the same request re-sent).
Redelivery ==
    /\ mpc \in {"done", "raised"}
    /\ run < MaxRuns
    /\ run' = run + 1
    /\ StartProcessing

\* find_matches, lines 669-679: the head of the loop over the funders.
NextFunder ==
    /\ mpc = "funder"
    /\ IF fi > Len(funding_alerts)
       THEN mpc' = "notify" /\ UNCHANGED fi
       ELSE IF Len(sector_opportunities(fi)) = 0
            THEN mpc' = "funder" /\ fi' = fi + 1
            ELSE mpc' = "singles" /\ UNCHANGED fi
    /\ oi' = 1 /\ size' = 2
    /\ UNCHANGED <<alerts, clock, bundles, store_faults, run, matches_created,
                   score_calls, create_calls, notifications, notmatch>>

\* find_matches, lines 700 and 704: where the loop over the single
\* opportunities leads when it is over.
AfterSingles ==
    IF minimum_investment(fi) > 0 /\ Len(sector_opportunities(fi)) >= 2
          /\ InSizeRange(fi, 2)
    THEN mpc' = "bundles" /\ UNCHANGED fi
    ELSE mpc' = "funder" /\ fi' = fi + 1

\* find_matches, lines 682-697: one single opportunity of the bucket.  An
\* exception of calculate_score is caught neither by find_matches nor by
\* process_match_request: it ends the run in the except clause of
\* MatchingAgent.run (line 861), and the message is not deleted.  So does an
\* exception of asyncpg.connect in create_bundle (line 554), which is outside
\* its try: the store cannot be reached ("no_connection").  A failed INSERT
\* ("insert_failed") is caught by create_bundle, which returns None.
SingleMatch ==
    /\ mpc = "singles"
    /\ \E opp \in {sector_opportunities(fi)[oi]} :
       /\ score_calls' = score_calls \cup {<<fi, <<opp.id>> >>}
       /\ IF Raises(funding_alerts[fi], <<opp>>)
          THEN /\ mpc' = "raised"
               /\ NoCreate
               /\ UNCHANGED <<fi, oi>>
          ELSE \E r \in {calculate_score(funding_alerts[fi], <<opp>>)} :
               \E store \in {"ok", "insert_failed", "no_connection"} :
                  /\ store = "ok" \/ (Qualifies(r.score) /\ store_faults > 0)
                  /\ IF store = "no_connection"
                     THEN /\ mpc' = "raised"
                          /\ store_faults' = store_faults - 1
                          /\ UNCHANGED <<bundles, matches_created, create_calls, fi, oi>>
                     ELSE /\ IF Qualifies(r.score)
                             THEN CreateBundle(<<opp>>, funding_alerts[fi], r.score,
                                               "simple", store = "ok")
                             ELSE NoCreate
                          /\ IF oi < Len(sector_opportunities(fi))
                             THEN oi' = oi + 1 /\ UNCHANGED <<mpc, fi>>
                             ELSE oi' = 1 /\ AfterSingles
    /\ size' = 2
    /\ UNCHANGED <<alerts, clock, run, notifications, notmatch>>

\* find_matches, lines 704-749: one bundle size; the best bundle of the size,
\* if there is one, is created.
BundleMatch ==
    /\ mpc = "bundles"
    /\ \E b \in {BestBundle(fi, size)} :
       \E store \in {"ok", "insert_failed", "no_connection"} :
           /\ store = "ok" \/ (b.best # << >> /\ store_faults > 0)
           /\ score_calls' = score_calls \cup {<<fi, c>> : c \in b.scored}
           /\ IF store = "no_connection"
              THEN /\ mpc' = "raised"
                   /\ store_faults' = store_faults - 1
                   /\ UNCHANGED <<bundles, matches_created, create_calls, fi, size>>
              ELSE /\ IF b.best # << >>
                      THEN CreateBundle(b.best[1].opportunities, funding_alerts[fi],
                                        b.best[1].score, "bundled", store = "ok")
                      ELSE NoCreate
                   /\ IF InSizeRange(fi, size + 1)
                      THEN size' = size + 1 /\ UNCHANGED <<mpc, fi>>
                      ELSE size' = 2 /\ mpc' = "funder" /\ fi' = fi + 1
    /\ UNCHANGED <<alerts, clock, run, oi, notifications, notmatch>>

\* A router that reads the high candidates off the create_bundle calls of
\* the run, the failed ones included.
HighMatchesOfCalls ==
    SelectSeq([i \in 1..Len(create_calls) |->
                  [bundle_id |-> create_calls[i].bundle_id, run |-> create_calls[i].run,
                   confidence |-> IF FGe(create_calls[i].score, Threshold080)
                                  THEN "high" ELSE "medium"]],
              LAMBDA m : m.run = run /\ m.confidence = "high")

\* process_match_request, lines 780-812: a match_found message per match of
\* high confidence, then one match_result message.
HighMatches == SelectSeq(matches_created, LAMBDA m : m.confidence = "high")

Notify ==
    /\ mpc = "notify"
    /\ notifications' =
          notifications
          \o [i \in 1..Len(HighMatches) |->
                 [type |-> "match_found", run |-> run, bundle_id |-> HighMatches[i].bundle_id]]
          \o <<[type |-> "match_result", run |-> run,
                 total_matches |-> Len(matches_created),
                 high_confidence |-> Len(HighMatches),
                 medium_confidence |->
                    Len(SelectSeq(matches_created, LAMBDA m : m.confidence = "medium"))]>>
    /\ mpc' = "done"
    /\ UNCHANGED <<alerts, clock, bundles, store_faults, run, fi, oi, size,
                   matches_created, score_calls, create_calls, notmatch>>

\* A second passes on the clock of datetime.utcnow().  The clock is read by
\* create_bundle only, so the seconds that pass elsewhere are taken to pass
\* before the next opportunity or bundle size is processed.
Tick ==
    /\ mpc \in {"singles", "bundles"}
    /\ clock < MaxClock
    /\ clock' = clock + 1
    /\ UNCHANGED <<alerts, bundles, store_faults, mpc, run, fi, oi, size,
                   matches_created, score_calls, create_calls, notifications, notmatch>>

(***************************************************************************)
(* run_all_handlers_parallel                                               *)
(***************************************************************************)
\* The coroutines that asyncio.gather wraps into tasks, in the order of the
\* list tasks: each is poll_and_process on the queue of its handler.
tasks == <<"investment", "funding", "results">>

\* What a step of the event loop or of one of its tasks leaves alone.
notparallel == <<qvars, svars, mvars, dvars>>

\* poll_and_process, line 90: max_iterations is None or iteration < max_iterations
LoopContinues(t) ==
    IF max_iterations = << >> THEN TRUE ELSE task_iteration[t] < max_iterations[1]

\* iteration += 1 in task t.  With max_iterations None the loop never reads
\* the counter, which is then kept modulo MaxIterations + 1.
task_count(t) ==
    task_iteration' = [task_iteration EXCEPT ![t] =
        IF max_iterations = << >> THEN (@ + 1) % (MaxIterations + 1) ELSE @ + 1]

\* The task that the event loop is running, if any.
Running == {t \in Range(tasks) : task_pc[t] = "running"}

\* The event loop resumes the first ready task once no task is running.
event_loop_run ==
    /\ Running = {}
    /\ ready # << >>
    /\ task_pc' = [task_pc EXCEPT ![Head(ready)] = "running"]
    /\ ready' = Tail(ready)
    /\ UNCHANGED <<max_iterations, task_iteration, task_receives, notparallel>>

\* One pass of the while loop of poll_and_process in the running task t,
\* lines 90-119.  receive_messages and delete_message are blocking calls of
\* the boto3 client, and the handlers registered in message_handlers.py
\* await nothing, so a pass that raises nothing comes back to the head of
\* the loop without the task being suspended.  A pass in which an exception
\* reaches line 116 awaits asyncio.sleep(5): the task is suspended.
poll_pass(t) ==
    /\ task_pc[t] = "running"
    /\ LoopContinues(t)
    /\ task_receives' = [task_receives EXCEPT ![t] = Min(@ + 1, MaxReceives)]
    /\ \E raised \in BOOLEAN :
          IF raised
          THEN /\ task_pc' = [task_pc EXCEPT ![t] = "sleeping"]
               /\ UNCHANGED task_iteration
          ELSE /\ task_count(t)
               /\ UNCHANGED task_pc
    /\ UNCHANGED <<max_iterations, ready, notparallel>>

\* poll_and_process, lines 118-119: the sleep is over, iteration += 1, and
\* the task is ready to be resumed.
sleep_over(t) ==
    /\ task_pc[t] = "sleeping"
    /\ task_pc' = [task_pc EXCEPT ![t] = "ready"]
    /\ ready' = Append(ready, t)
    /\ task_count(t)
    /\ UNCHANGED <<max_iterations, task_receives, notparallel>>

\* poll_and_process, line 90: the loop condition fails and the task ends.
poll_return(t) ==
    /\ task_pc[t] = "running"
    /\ ~ LoopContinues(t)
    /\ task_pc' = [task_pc EXCEPT ![t] = "finished"]
    /\ UNCHANGED <<max_iterations, ready, task_iteration, task_receives, notparallel>>

(***************************************************************************)
(* run_daily_matching_job                                                  *)
(***************************************************************************)
\* What a step of the daily job leaves alone.
notdaily == <<qvars, svars, mvars, pvars>>

ConfidenceLevels == {"high", "medium", "low"}

\* The matches engine.run_matching can return: the fields the job and the
\* two storage functions read.  A match has one funder and one opportunity
\* ("simple") or two ("bundled").
MatchesOfEngine ==
    UNION {{[i \in 1..n |->
                [match_id |-> i,
                 confidence_level |-> f[i][1],
                 opportunities |-> f[i][2],
                 funders |-> 1]] : f \in [1..n -> ConfidenceLevels \X {1, 2}]}
           : n \in 0..MaxMatches}

\* lines 54-56 with the for loops of lines 62 and 85: the index of the next
\* match of the given level at or after di, 0 when the list is exhausted.
NextOfLevel(level) ==
    LET rest == {i \in di..Len(all_matches) : all_matches[i].confidence_level = level}
    IN  IF rest = {} THEN 0 ELSE CHOOSE i \in rest : \A j \in rest : i <= j

\* store_match_proposal, lines 343-399: the row inserted.
store_match_proposal(match_data, requires_approval) ==
    [match_id |-> match_data.match_id,
     confidence_level |-> match_data.confidence_level,
     requires_approval |-> requires_approval,
     status |-> "proposed"]

\* create_match_alert, lines 503 and 613: one alert per opportunity, then one
\* per funder.
Participants(match_data) ==
    [j \in 1..match_data.opportunities |-> "opportunity_provider"]
        \o [j \in 1..match_data.funders |-> "funder"]

\* create_match_alert, lines 493-701: the rows inserted in the table alerts
\* when the first k inserts succeed (an exception at insert k + 1 leaves the
\* rows before it and makes the function return None); auto_notify says
\* whether the alert was also sent to the alert API.
create_match_alert(match_data, auto_notify, k) ==
    {[match_id |-> match_data.match_id,
      role |-> Participants(match_data)[j],
      participant |-> j,
      auto_notify |-> auto_notify] : j \in 1..k}

\* A variant of the job that queues for approval whatever the store returned.
QueuesWithoutStore(match_id) == TRUE

\* run_daily_matching_job, lines 67 and 90: if match_id:
StoreSucceeded(match_id) == match_id # << >>

\* run_daily_matching_job, lines 62-79: one high-confidence match.
process_high ==
    /\ dpc = "high"
    /\ NextOfLevel("high") # 0
    /\ LET match == all_matches[NextOfLevel("high")] IN
       /\ di' = match.match_id + 1
       /\ \E stored \in BOOLEAN : \E k \in 0..Len(Participants(match)) :
            LET match_id == IF stored THEN <<match.match_id>> ELSE << >>
                alert_ids == k = Len(Participants(match))
            IN  IF StoreSucceeded(match_id)
                THEN /\ opportunity_matches' =
                          IF stored
                          THEN Append(opportunity_matches, store_match_proposal(match, FALSE))
                          ELSE opportunity_matches
                     /\ match_alerts' = match_alerts \cup create_match_alert(match, TRUE, k)
                     /\ high_confidence_processed' =
                          IF alert_ids THEN high_confidence_processed + 1
                          ELSE high_confidence_processed
                     /\ job_faults' = IF alert_ids THEN job_faults ELSE job_faults + 1
                ELSE /\ k = 0
                     /\ job_faults' = job_faults + 1
                     /\ UNCHANGED <<opportunity_matches, match_alerts, high_confidence_processed>>
    /\ UNCHANGED <<all_matches, dpc, match_approvals, medium_confidence_queued, notdaily>>

\* run_daily_matching_job, lines 81-83: the high-confidence matches are done;
\* get_sqs_manager returns the manager, or raises and the job fails (148).
end_high ==
    /\ dpc = "high"
    /\ NextOfLevel("high") = 0
    /\ dpc' \in {"medium", "failed"}
    /\ di' = 1
    /\ UNCHANGED <<all_matches, opportunity_matches, match_alerts, match_approvals,
                   high_confidence_processed, medium_confidence_queued,
                   job_faults, notdaily>>

\* run_daily_matching_job, lines 85-116: one medium-confidence match.  The
\* result of create_match_alert is not looked at; send_message returns the
\* message id or None.
process_medium ==
    /\ dpc = "medium"
    /\ NextOfLevel("medium") # 0
    /\ LET match == all_matches[NextOfLevel("medium")] IN
       /\ di' = match.match_id + 1
       /\ \E stored, message_id \in BOOLEAN : \E k \in 0..Len(Participants(match)) :
            LET match_id == IF stored THEN <<match.match_id>> ELSE << >>
                failed == (IF k = Len(Participants(match)) THEN 0 ELSE 1)
                              + (IF message_id THEN 0 ELSE 1)
            IN  IF StoreSucceeded(match_id)
                THEN /\ opportunity_matches' =
                          IF stored
                          THEN Append(opportunity_matches, store_match_proposal(match, TRUE))
                          ELSE opportunity_matches
                     /\ match_alerts' = match_alerts \cup create_match_alert(match, FALSE, k)
                     /\ match_approvals' =
                          IF message_id
                          THEN Append(match_approvals,
                                      [type |-> "match_approval_needed",
                                       match_id |-> match_id,
                                       opportunities_count |-> match.opportunities,
                                       funders_count |-> match.funders])
                          ELSE match_approvals
                     /\ medium_confidence_queued' =
                          IF message_id THEN medium_confidence_queued + 1
                          ELSE medium_confidence_queued
                     /\ job_faults' = job_faults + failed + (IF stored THEN 0 ELSE 1)
                ELSE /\ k = 0
                     /\ ~ message_id
                     /\ job_faults' = job_faults + 1
                     /\ UNCHANGED <<opportunity_matches, match_alerts, match_approvals,
                                    medium_confidence_queued>>
    /\ UNCHANGED <<all_matches, dpc, high_confidence_processed, notdaily>>

\* run_daily_matching_job, lines 118-146: the low-confidence matches are only
\* counted in a log line, and the job returns its summary.
end_medium ==
    /\ dpc = "medium"
    /\ NextOfLevel("medium") = 0
    /\ dpc' = "completed"
    /\ di' = 1
    /\ UNCHANGED <<all_matches, opportunity_matches, match_alerts, match_approvals,
                   high_confidence_processed, medium_confidence_queued,
                   job_faults, notdaily>>

(***************************************************************************)
(* Specifications                                                          *)
(***************************************************************************)
IdleQueue ==
    /\ queue = [l \in Loops |-> [m \in MsgIds |-> NoMsg]]
    /\ nextHandle = [l \in Loops |-> 0]
    /\ pc = [l \in Loops |-> "idle"]
    /\ batch = [l \in Loops |-> << >>]
    /\ idx = [l \in Loops |-> 1]
    /\ result = [l \in Loops |-> "none"]
    /\ iteration = [l \in Loops |-> 0]
    /\ receives = [l \in Loops |-> 0]
    /\ transport = [l \in Loops |-> "none"]
    /\ slept = [l \in Loops |-> FALSE]

IdleScore ==
    /\ in_funder = << >>
    /\ in_opps = << >>
    /\ scored = << >>
    /\ metrics = << >>

IdleParallel ==
    /\ max_iterations = << >>
    /\ task_pc = [t \in Range(tasks) |-> "idle"]
    /\ ready = << >>
    /\ task_iteration = [t \in Range(tasks) |-> 0]
    /\ task_receives = [t \in Range(tasks) |-> 0]

IdleDaily ==
    /\ all_matches = << >>
    /\ dpc = "idle"
    /\ di = 1
    /\ opportunity_matches = << >>
    /\ match_alerts = {}
    /\ match_approvals = << >>
    /\ high_confidence_processed = 0
    /\ medium_confidence_queued = 0
    /\ job_faults = 0

IdleMatch ==
    /\ investment_alerts = << >>
    /\ funding_alerts = << >>
    /\ clock = 0
    /\ unique_bundle_id = FALSE
    /\ bundles = << >>
    /\ store_faults = 0
    /\ mpc = "idle"
    /\ run = 0
    /\ fi = 1 /\ oi = 1 /\ size = 2
    /\ matches_created = << >>
    /\ score_calls = {}
    /\ create_calls = << >>
    /\ notifications = << >>

\* SpecQueue: one started consumer loop and its queue.
InitQueue ==
    /\ queue = [l \in Loops |-> [m \in MsgIds |-> NoMsg]]
    /\ nextHandle = [l \in Loops |-> 0]
    /\ \E started \in Loops : pc = [l \in Loops |-> IF l = started THEN "poll" ELSE "idle"]
    /\ batch = [l \in Loops |-> << >>]
    /\ idx = [l \in Loops |-> 1]
    /\ result = [l \in Loops |-> "none"]
    /\ iteration = [l \in Loops |-> 0]
    /\ receives = [l \in Loops |-> 0]
    /\ transport = [l \in Loops |-> "none"]
    /\ slept = [l \in Loops |-> FALSE]
    /\ IdleScore
    /\ IdleMatch
    /\ IdleParallel
    /\ IdleDaily

NextQueue ==
    \/ \E l \in Loops : send_message(l)
    \/ \E l \in Loops : visibility_timeout(l)
    \/ poll_receive
    \/ poll_process
    \/ poll_ack
    \/ poll_exit
    \/ run_receive
    \/ run_process
    \/ run_ack
    \/ \E l \in Loops : KeyboardInterrupt(l)

SpecQueue == InitQueue /\ [][NextQueue]_vars

\* SpecPoll: poll_and_process(queue_url, max_iterations = MaxIterations) as a
\* started task and its queue.  The task is scheduled again after every
\* await (the receive returns after the long-poll wait at the latest), so
\* the loop takes its next step as long as it has one.
PollStep == poll_receive \/ poll_process \/ poll_ack \/ poll_exit

InitPoll ==
    /\ InitQueue
    /\ pc[PollLoop] = "poll"

NextPoll ==
    \/ send_message(PollLoop)
    \/ visibility_timeout(PollLoop)
    \/ poll_receive
    \/ poll_process
    \/ poll_ack
    \/ poll_exit
    \/ KeyboardInterrupt(PollLoop)

SpecPoll ==
    /\ InitPoll
    /\ [][NextPoll]_vars
    /\ WF_vars(PollStep)

\* SpecParallel: run_all_handlers_parallel(max_iterations), with None or
\* MaxIterations: asyncio.gather has made the three coroutines tasks of the
\* event loop, ready in the order of the list.  The event loop resumes a
\* ready task when it is free, a running task goes on, and a sleep ends.
InitParallel ==
    /\ IdleQueue
    /\ IdleScore
    /\ IdleMatch
    /\ IdleDaily
    /\ max_iterations \in {<< >>, <<MaxIterations>>}
    /\ task_pc = [t \in Range(tasks) |-> "ready"]
    /\ ready = tasks
    /\ task_iteration = [t \in Range(tasks) |-> 0]
    /\ task_receives = [t \in Range(tasks) |-> 0]

NextParallel ==
    \/ event_loop_run
    \/ \E t \in Range(tasks) : poll_pass(t)
    \/ \E t \in Range(tasks) : sleep_over(t)
    \/ \E t \in Range(tasks) : poll_return(t)

SpecParallel ==
    /\ InitParallel
    /\ [][NextParallel]_vars
    /\ WF_vars(event_loop_run)
    /\ \A t \in Range(tasks) :
          WF_vars(poll_pass(t)) /\ WF_vars(sleep_over(t)) /\ WF_vars(poll_return(t))

\* SpecDaily: run_daily_matching_job after engine.run_matching returned its
\* list of matches, with every outcome of the store, of the alert inserts
\* and of the send.
InitDaily ==
    /\ IdleQueue
    /\ IdleScore
    /\ IdleMatch
    /\ IdleParallel
    /\ all_matches \in MatchesOfEngine
    /\ dpc = "high"
    /\ di = 1
    /\ opportunity_matches = << >>
    /\ match_alerts = {}
    /\ match_approvals = << >>
    /\ high_confidence_processed = 0
    /\ medium_confidence_queued = 0
    /\ job_faults = 0

NextDaily == process_high \/ end_high \/ process_medium \/ end_medium

SpecDaily == InitDaily /\ [][NextDaily]_vars

\* SpecScore: calculate_score applied to every funder and every list of up
\* to MaxScoreOpps opportunities of the model.
InitScore ==
    /\ IdleQueue
    /\ in_funder \in FunderAlerts
    /\ in_opps \in SeqsUpTo(OpportunityAlerts, MaxScoreOpps)
    /\ scored = << >>
    /\ metrics = << >>
    /\ IdleMatch
    /\ IdleParallel
    /\ IdleDaily

Score ==
    /\ scored = << >>
    /\ scored' = <<calculate_score(in_funder, in_opps)>>
    /\ UNCHANGED <<in_funder, in_opps, metrics, qvars, mvars, pvars, dvars>>

\* One call of BundleAnalyzer.calculate_bundle_metrics on the same list.
Metrics ==
    /\ metrics = << >>
    /\ metrics' = <<calculate_bundle_metrics(in_opps)>>
    /\ UNCHANGED <<in_funder, in_opps, scored, qvars, mvars, pvars, dvars>>

NextScore == Score \/ Metrics

SpecScore == InitScore /\ [][NextScore]_vars

\* SpecMatch: the matching agent processes one match_request, MaxRuns times
\* at most, on the active alerts of the alerts table.  The rows of the table
\* get their ids in the order of the query.
WithIds(alerts_, base) ==
    [i \in 1..Len(alerts_) |-> [alerts_[i] EXCEPT !.id = base + i]]

\* Opportunities of the solar sector, and opportunities whose sector is the
\* empty string: these share a bucket with the funders that name no sector.
SolarOpportunities ==
    {Alert(0, <<"solar_energy">>, << >>, <<500000>>, << >>, <<18>>, <<"2025-03-01">>, <<"pv">>),
     Alert(0, << >>, <<"Solar_Energy">>, <<200000>>, << >>, <<8>>, <<"2026-01-15">>, <<"csp">>)}

UnsectoredOpportunities ==
    {Alert(0, <<"">>, << >>, <<500000>>, << >>, <<18>>, <<"2025-03-01">>, <<"pv">>),
     Alert(0, <<"">>, << >>, <<200000>>, << >>, <<8>>, <<"2026-01-15">>, <<"csp">>)}

MatchOpportunities == {SolarOpportunities, UnsectoredOpportunities}

\* A solar funder with a minimum, a solar funder without one, and two
\* funders that name no sector, of a high and of a low expected ROI, a
\* solar funder whose document has "minimum_required": null, and a solar
\* funder of a high expected ROI whose available amount is a tenth of its
\* minimum.
MatchFunders ==
    {Alert(0, << >>, <<"solar_energy">>, <<1000000>>, <<1000000>>, <<10>>, << >>, << >>),
     Alert(0, << >>, <<"solar_energy">>, <<100000>>, <<1000000>>, <<20>>, << >>, << >>),
     Alert(0, << >>, <<"Solar_Energy">>, << >>, << >>, <<20>>, << >>, << >>),
     Alert(0, << >>, << >>, <<1000000>>, <<1000000>>, <<20>>, << >>, << >>),
     Alert(0, << >>, << >>, <<1000000>>, <<1000000>>, <<8>>, << >>, << >>),
     WithNulls(Alert(0, << >>, <<"solar_energy">>, <<1000000>>, << >>, <<10>>, << >>, << >>),
               {"minimum_required"})}

\* The lists of up to n investment alerts that hold the opportunities of one
\* kind first and those of another kind after them.
InvestmentLists(n) ==
    UNION {{[i \in 1..k |-> IF i <= a THEN x ELSE y] :
               k \in 0..n, a \in 0..n, x \in kinds, y \in kinds} :
           kinds \in MatchOpportunities}

\* No funder, one funder of either kind, or both.
FunderLists ==
    {<< >>} \cup {<<f>> : f \in MatchFunders}
            \cup {fg \in [1..2 -> MatchFunders] : fg[1] # fg[2]}

InitMatch ==
    /\ IdleQueue
    /\ IdleScore
    /\ IdleParallel
    /\ IdleDaily
    /\ \E opps \in InvestmentLists(MaxOpps) : investment_alerts = WithIds(opps, 0)
    /\ \E funders \in FunderLists : funding_alerts = WithIds(funders, 100)
    /\ unique_bundle_id \in BOOLEAN
    /\ clock = 0
    /\ bundles = << >>
    /\ store_faults = 0
    /\ mpc = "idle"
    /\ run = 0
    /\ fi = 1 /\ oi = 1 /\ size = 2
    /\ matches_created = << >>
    /\ score_calls = {}
    /\ create_calls = << >>
    /\ notifications = << >>

NextMatch ==
    \/ process_match_request
    \/ Redelivery
    \/ NextFunder
    \/ SingleMatch
    \/ BundleMatch
    \/ Notify
    \/ Tick

SpecMatch == InitMatch /\ [][NextMatch]_vars

\* SpecFind: one find_matches run of one funder over up to MaxBucket
\* investment alerts, within one second of the clock.
InitFind ==
    /\ IdleQueue
    /\ IdleScore
    /\ IdleParallel
    /\ IdleDaily
    /\ \E opps \in InvestmentLists(MaxBucket) : investment_alerts = WithIds(opps, 0)
    /\ \E funder \in MatchFunders : funding_alerts = WithIds(<<funder>>, 100)
    /\ unique_bundle_id \in BOOLEAN
    /\ clock = 0
    /\ bundles = << >>
    /\ store_faults \in {0, 1}
    /\ mpc = "idle"
    /\ run = 0
    /\ fi = 1 /\ oi = 1 /\ size = 2
    /\ matches_created = << >>
    /\ score_calls = {}
    /\ create_calls = << >>
    /\ notifications = << >>

NextFind ==
    \/ process_match_request
    \/ NextFunder
    \/ SingleMatch
    \/ BundleMatch
    \/ Notify

SpecFind == InitFind /\ [][NextFind]_vars

(***************************************************************************)
(* Claims on the queue contract                                            *)
(***************************************************************************)
\* C1: a message of a consumer loop's queue (poll_and_process, run) becomes
\* deleted only in the loop's acknowledge step for that very message, after
\* its handler completed successfully; no step deletes a message whose
\* handler raised or was not run, so it stays on the queue for redelivery.
C1_DeleteOnlyAfterSuccess ==
    [][\A l \in Loops, m \in MsgIds :
          (queue[l][m].state # "deleted" /\ queue'[l][m].state = "deleted")
             => /\ pc[l] = "ack"
                /\ result[l] = "ok"
                /\ CurrentMessage(l).message_id = m
                /\ CurrentMessage(l).receipt_handle = queue[l][m].handle]_vars

\* C1 witness: a handler has just raised for a message that is still on the
\* queue, while the same loop already deleted another message.
C1_Witness ==
    \E l \in Loops :
       /\ result[l] = "raised"
       /\ \E m \in MsgIds : queue[l][m].state = "deleted"
       /\ \E m \in MsgIds : queue[l][m].state \in {"inflight", "visible"}
                              /\ queue[l][m].receive_count >= 1

\* C2: when a message that was received before and not deleted is received
\* again, the receive returns it with a receipt handle that no earlier
\* receive on the queue returned, and with the type and payload of its
\* previous delivery.
C2_RedeliveryNewHandleSamePayload ==
    [][\A l \in Loops :
          receives'[l] # receives[l] =>
             \A i \in 1..Len(batch'[l]) :
                LET msg == batch'[l][i]
                    before == queue[l][msg.message_id].last
                IN  /\ msg.receipt_handle \notin 1..nextHandle[l]
                    /\ before # << >> =>
                          /\ msg.receipt_handle # before[1].receipt_handle
                          /\ msg.type = before[1].type
                          /\ msg.payload = before[1].payload]_vars

\* C2 witness: a loop holds the second delivery of a message whose
\* visibility timeout ran out, and a message with another payload was
\* delivered on the same queue.
C2_Witness ==
    \E l \in Loops :
       /\ pc[l] = "process"
       /\ queue[l][CurrentMessage(l).message_id].receive_count >= 2
       /\ \E m \in MsgIds :
             /\ queue[l][m].last # << >>
             /\ queue[l][m].last[1].payload # CurrentMessage(l).payload

(***************************************************************************)
(* Claims on the compatibility score                                       *)
(***************************************************************************)
\* C7: for every funder and every list of opportunities, the empty list and
\* records with missing fields included, calculate_score returns a score
\* that is at least 0 and at most 1.
C7_ScoreInUnitInterval ==
    scored # << >> => FGe(scored[1].score, Zero) /\ FGe(One, scored[1].score)

\* C7 witness: a funder without any criteria has been scored against the
\* empty list of opportunities.
C7_Witness ==
    /\ scored # << >>
    /\ in_opps = << >>
    /\ in_funder.c_sector = << >> /\ in_funder.amount = << >>
    /\ in_funder.minimum_required = << >> /\ in_funder.roi_expected = << >>

\* C8: the five weights add up to 1, and a candidate whose five sub-scores
\* are all 1.0 gets the score 1.0 exactly.
C8_FullSubScoresGiveOne ==
    /\ sector_weight + financial_weight + timeline_weight + roi_weight
          + technical_weight = 100
    /\ (scored # << >> /\ \A k \in DOMAIN scored[1].sub : scored[1].sub[k] = 100)
          => scored[1].score = One

\* C8 witness: a list of two opportunities has been scored with all five
\* sub-scores at 1.0.
C8_Witness ==
    /\ scored # << >>
    /\ Len(in_opps) = 2
    /\ \A k \in DOMAIN scored[1].sub : scored[1].sub[k] = 100

(***************************************************************************)
(* Claims on the persistence of bundles                                    *)
(***************************************************************************)
\* C3: processing the same match_request again over the same alerts leaves
\* the bundle rows as they were after the first processing: no row is added
\* by a later processing, and no two rows hold the same candidate (the same
\* funder and the same opportunities).
C3_RedeliveryKeepsRows ==
    /\ \A i \in DOMAIN bundles : bundles[i].run = 1
    /\ \A i, j \in DOMAIN bundles :
          (bundles[i].matched_funder_id = bundles[j].matched_funder_id
             /\ bundles[i].opportunity_ids = bundles[j].opportunity_ids) => i = j

\* C4: persisting a bundle under a bundle_id that the store already holds
\* leaves exactly one row with that bundle_id, and the write succeeds.
C4_ExistingBundleIdKeepsOneRow ==
    /\ \A i, j \in DOMAIN bundles : bundles[i].bundle_id = bundles[j].bundle_id => i = j
    /\ \A i \in DOMAIN create_calls : create_calls[i].existed => create_calls[i].ok

\* C5: within one matching run, two create_bundle calls for different
\* candidates (different opportunities or different funders) get different
\* bundle_ids.
C5_DistinctCandidatesDistinctIds ==
    \A i, j \in DOMAIN create_calls :
       (create_calls[i].run = create_calls[j].run
          /\ (create_calls[i].opportunity_ids # create_calls[j].opportunity_ids
                \/ create_calls[i].funder # create_calls[j].funder))
       => create_calls[i].bundle_id # create_calls[j].bundle_id

(***************************************************************************)
(* Claims on the search of find_matches                                    *)
(***************************************************************************)
\* C6: every create_bundle call of find_matches is for a candidate (a single
\* opportunity or a combination) whose compatibility score, as
\* calculate_score gives it, is at least 0.60; every bundle row and every
\* returned match stems from such a call, so a candidate scoring below 0.60
\* is neither persisted nor returned.
C6_CreateOnlyAtThreshold ==
    /\ [][\A i \in (DOMAIN create_calls') \ (DOMAIN create_calls) :
             LET c == create_calls'[i]
             IN  /\ c.score = calculate_score(funding_alerts[c.funder - 100],
                                               Opportunities(c.opportunity_ids)).score
                 /\ FGe(c.score, Threshold060)]_vars
    /\ [](\A i \in DOMAIN bundles :
             /\ FGe(bundles[i].compatibility_score, Threshold060)
             /\ \E j \in DOMAIN create_calls :
                   /\ create_calls[j].ok
                   /\ create_calls[j].bundle_id = bundles[i].bundle_id
                   /\ create_calls[j].opportunity_ids = bundles[i].opportunity_ids
                   /\ create_calls[j].score = bundles[i].compatibility_score)
    /\ [](\A i \in DOMAIN matches_created :
             /\ FGe(matches_created[i].score, Threshold060)
             /\ \E j \in DOMAIN create_calls :
                   /\ create_calls[j].ok
                   /\ create_calls[j].bundle_id = matches_created[i].bundle_id
                   /\ create_calls[j].score = matches_created[i].score)

\* C6 witness: a run is over in which a single opportunity and a combination
\* were scored below 0.60 and no create_bundle call was made for either,
\* while a bundle that scored at least 0.60 was persisted and returned.
C6_Witness ==
    /\ mpc = "notify"
    /\ Len(investment_alerts) = 4
    /\ \E i \in DOMAIN matches_created : matches_created[i].opportunities >= 2
    /\ \E sc \in score_calls :
          /\ Len(sc[2]) = 1
          /\ ~ FGe(calculate_score(funding_alerts[sc[1]], Opportunities(sc[2])).score,
                  Threshold060)
          /\ \A j \in DOMAIN create_calls :
                create_calls[j].opportunity_ids # sc[2]
    /\ \E sc \in score_calls :
          /\ Len(sc[2]) >= 2
          /\ ~ FGe(calculate_score(funding_alerts[sc[1]], Opportunities(sc[2])).score,
                  Threshold060)
          /\ \A j \in DOMAIN create_calls :
                create_calls[j].opportunity_ids # sc[2]

\* C9: a combination of two or more opportunities is scored or persisted for
\* a funder only if the funder's minimum_required is greater than 0 and its
\* sector bucket holds at least 2 opportunities, and its size is at most the
\* smaller of the bucket size and max_bundle_size = 5.
C9_BundleSizesCapped ==
    /\ \A sc \in score_calls :
          Len(sc[2]) >= 2 =>
             /\ Get(funding_alerts[sc[1]].minimum_required, 0) > 0
             /\ Len(sector_opportunities(sc[1])) >= 2
             /\ Len(sc[2]) <= Len(sector_opportunities(sc[1]))
             /\ Len(sc[2]) <= 5
    /\ \A i \in DOMAIN create_calls :
          Len(create_calls[i].opportunity_ids) >= 2 =>
             /\ Get(funding_alerts[create_calls[i].funder - 100].minimum_required, 0) > 0
             /\ Len(create_calls[i].opportunity_ids) <= 5
    /\ \A i \in DOMAIN bundles : bundles[i].opportunity_count <= 5
    /\ max_bundle_size = 5

\* C9 witness: a run over a bucket of 8 opportunities is over; combinations
\* of 5 opportunities were scored and one was persisted.
C9_Witness ==
    /\ mpc = "notify"
    /\ Len(sector_opportunities(1)) = 8
    /\ \E sc \in score_calls : Len(sc[2]) = 5
    /\ \E i \in DOMAIN bundles : bundles[i].opportunity_count = 5

\* C10: when find_matches has gone through the combinations of one size for
\* one funder, it calls create_bundle at most once: not at all when no
\* combination of the size passed the investment pre-filter and scored at
\* least 0.60, and otherwise once, for one of those combinations, whose score
\* none of them exceeds.  No two bundle rows of a run hold the same funder
\* and the same size, whatever the bundles of the other sizes score.  (A
\* create_bundle call that cannot reach the store raises and ends the run.)
C10_BestBundlePerSize ==
    /\ [][(mpc = "bundles" /\ mpc' # "raised") =>
             \A bucket \in {sector_opportunities(fi)} :
             \A combos \in {Combinations(1, Len(bucket), size)} :
             \* the combinations that passed the pre-filter, with their scores
             \A filtered \in {{<<k, calculate_score(funding_alerts[fi],
                                                    Combo(bucket, combos[k])).score>> :
                                 k \in {n \in DOMAIN combos :
                                          ~ BelowMinimum(Combo(bucket, combos[n]),
                                                         minimum_investment(fi))}}} :
             \A passing \in {{p \in filtered : FGe(p[2], Threshold060)}} :
             \A new \in {(DOMAIN create_calls') \ (DOMAIN create_calls)} :
                /\ passing = {} => new = {}
                /\ passing # {} =>
                      /\ Cardinality(new) = 1
                      /\ \A i \in new :
                            /\ create_calls'[i].funder = funding_alerts[fi].id
                            /\ \E p \in passing :
                                  /\ create_calls'[i].opportunity_ids =
                                        Ids(Combo(bucket, combos[p[1]]))
                                  /\ create_calls'[i].score = p[2]
                            /\ \A p \in passing : FGe(create_calls'[i].score, p[2])]_vars
    /\ [](\A i, j \in DOMAIN bundles :
             (bundles[i].opportunity_count >= 2
                /\ bundles[i].run = bundles[j].run
                /\ bundles[i].matched_funder_id = bundles[j].matched_funder_id
                /\ bundles[i].opportunity_count = bundles[j].opportunity_count) => i = j)

\* C10 witness: a run is over that persisted, for one funder, the best
\* bundle of one size and the best bundle of another size that scores less,
\* where the size of the higher score had combinations of several scores.
C10_Witness ==
    /\ mpc = "notify"
    /\ \E i, j \in DOMAIN bundles :
          /\ bundles[i].opportunity_count >= 2
          /\ bundles[j].opportunity_count >= 2
          /\ bundles[i].opportunity_count # bundles[j].opportunity_count
          /\ bundles[i].matched_funder_id = bundles[j].matched_funder_id
          /\ FGt(bundles[i].compatibility_score, bundles[j].compatibility_score)
          /\ \E sc \in score_calls :
                /\ Len(sc[2]) = bundles[j].opportunity_count
                /\ FGt(bundles[j].compatibility_score,
                       calculate_score(funding_alerts[sc[1]], Opportunities(sc[2])).score)

\* C11: a combination of two or more opportunities whose summed investment
\* is below 80% of the funder's minimum_required is never scored and
\* create_bundle is never called for it.
C11_BelowMinimumNeverScored ==
    /\ \A sc \in score_calls :
          Len(sc[2]) >= 2 =>
             TotalInvestment(Opportunities(sc[2])) * 5 >= minimum_investment(sc[1]) * 4
    /\ \A i \in DOMAIN create_calls :
          create_calls[i].type = "bundled" =>
             TotalInvestment(Opportunities(create_calls[i].opportunity_ids)) * 5
                >= minimum_investment(create_calls[i].funder - 100) * 4

\* C11 witness: a run is over in which the bucket of the funder held a pair
\* below 80% of the minimum, which was not scored, and a pair that was.
C11_Witness ==
    /\ mpc = "notify"
    /\ \E i, j \in 1..Len(sector_opportunities(1)) :
          /\ i < j
          /\ TotalInvestment(<<sector_opportunities(1)[i], sector_opportunities(1)[j]>>) * 5
                < minimum_investment(1) * 4
          /\ <<1, <<sector_opportunities(1)[i].id, sector_opportunities(1)[j].id>> >>
                \notin score_calls
    /\ \E sc \in score_calls : Len(sc[2]) = 2

\* C12: when a run of process_match_request is over, every run so far has
\* sent as many match_found messages as it persisted rows of high
\* confidence, and exactly one match_result message, also a run that found
\* no match or no alerts.
C12_OneResultPerRun ==
    mpc = "done" =>
       \A r \in 1..run :
          /\ Cardinality({i \in DOMAIN notifications :
                            notifications[i].type = "match_found" /\ notifications[i].run = r})
                = Cardinality({i \in DOMAIN bundles :
                                 bundles[i].run = r /\ bundles[i].confidence_level = "high"})
          /\ Cardinality({i \in DOMAIN notifications :
                            notifications[i].type = "match_result" /\ notifications[i].run = r})
                = 1

\* C13: for a funder of sector solar_energy with minimum_required 1,000,000
\* and roi_expected 10, and the list of two solar opportunities of one year,
\* 500,000 at 18% and 600,000 at 17%, calculate_score returns at least 0.80
\* (confidence high) and calculate_bundle_metrics returns total_investment
\* 1,100,000 and blended_roi 17.45.
C13_SolarBundleScenario ==
    (/\ in_funder # << >>
     /\ Lower(Get(in_funder.c_sector, "")) = "solar_energy"
     /\ in_funder.minimum_required = <<1000000>>
     /\ in_funder.roi_expected = <<10>>
     /\ Len(in_opps) = 2
     /\ in_opps[1].amount = <<500000>> /\ in_opps[1].roi_expected = <<18>>
     /\ in_opps[2].amount = <<600000>> /\ in_opps[2].roi_expected = <<17>>
     /\ \A i \in 1..2 :
           /\ Lower(Get(in_opps[i].sector, Get(in_opps[i].c_sector, ""))) = "solar_energy"
           /\ in_opps[i].execution_start # << >>
           /\ Prefix4(in_opps[i].execution_start[1]) = "2025")
    => /\ scored # << >> =>
             /\ FGe(scored[1].score, Threshold080)
             /\ ConfidenceLevel(scored[1].score) = "high"
       /\ metrics # << >> =>
             /\ metrics[1].total_investment = 1100000
             /\ metrics[1].blended_roi = 1745

\* C13 witness: the funder and the two opportunities of the scenario, after
\* the calls of calculate_score and calculate_bundle_metrics.
C13_Witness ==
    /\ in_funder # << >>
    /\ Lower(Get(in_funder.c_sector, "")) = "solar_energy"
    /\ in_funder.minimum_required = <<1000000>>
    /\ in_funder.roi_expected = <<10>>
    /\ Len(in_opps) = 2
    /\ in_opps[1].amount = <<500000>> /\ in_opps[1].roi_expected = <<18>>
    /\ in_opps[2].amount = <<600000>> /\ in_opps[2].roi_expected = <<17>>
    /\ \A i \in 1..2 :
          /\ in_opps[i].sector = <<"solar_energy">>
          /\ in_opps[i].execution_start # << >>
          /\ Prefix4(in_opps[i].execution_start[1]) = "2025"
    /\ scored # << >>
    /\ metrics # << >>

\* C14: a single opportunity of 200,000 scored by find_matches for a funder
\* of its sector (solar_energy) with minimum_required 1,000,000 gets the
\* financial-fit sub-score 0.3 and an overall score below 0.60, and no row
\* is persisted for it.
C14_SmallSingleNotPersisted ==
    \A sc \in score_calls :
       (/\ Len(sc[2]) = 1
        /\ investment_alerts[sc[2][1]].amount = <<200000>>
        /\ funding_alerts[sc[1]].minimum_required = <<1000000>>
        /\ FunderSector(sc[1]) = "solar_energy")
       => \A r \in {calculate_score(funding_alerts[sc[1]], Opportunities(sc[2]))} :
             /\ r.sub.financial = 30
             /\ ~ FGe(r.score, Threshold060)
             /\ \A i \in DOMAIN bundles :
                   ~ (/\ bundles[i].matched_funder_id = funding_alerts[sc[1]].id
                      /\ bundles[i].opportunity_ids = sc[2])

C16_PollTerminates ==
    /\ [](receives[PollLoop] <= MaxIterations)
    /\ [](receives[PollLoop] <= iteration[PollLoop]
                                  + (IF pc[PollLoop] \in {"process", "ack"} THEN 1 ELSE 0))
    /\ <>(pc[PollLoop] = "stopped")

\* C16 witness: the loop has ended after MaxIterations receives, with one
\* message deleted and one message received and left on the queue.
C16_Witness ==
    /\ pc[PollLoop] = "stopped"
    /\ receives[PollLoop] = MaxIterations
    /\ iteration[PollLoop] = MaxIterations
    /\ batch[PollLoop] = << >>
    /\ \E m \in MsgIds : queue[PollLoop][m].state = "deleted"
    /\ \E m \in MsgIds : queue[PollLoop][m].state = "inflight"

\* C17: every polling task started by run_all_handlers_parallel eventually
\* makes a receive on its queue, whatever the other tasks do.
C17_NoTaskStarves ==
    \A t \in Range(tasks) : <>(task_receives[t] > 0)

C19_MalformedCriteriaContinue ==
    \A f \in 1..Len(funding_alerts) :
       funding_alerts[f].nulls # {} =>
          /\ ~ (mpc = "raised" /\ fi = f)
          /\ mpc = "done" /\ investment_alerts # << >> =>
                \A i \in 1..Len(sector_opportunities(f)) :
                   <<f, <<sector_opportunities(f)[i].id>> >> \in score_calls

\* C20: a transport failure of receive_messages gives poll_and_process an
\* empty list and no exception; no message is deleted before the loop's next
\* receive; and the loop makes that next receive only after a backoff sleep.
C20_TransportFailureBacksOff ==
    /\ [](transport[PollLoop] = "failed" =>
             batch[PollLoop] = << >> /\ pc[PollLoop] \in {"poll", "stopped"})
    /\ [][(\E m \in MsgIds : /\ queue[PollLoop][m].state # "deleted"
                             /\ queue'[PollLoop][m].state = "deleted")
             => transport[PollLoop] = "ok"]_vars
    /\ [][(receives'[PollLoop] = receives[PollLoop] + 1 /\ transport[PollLoop] = "failed")
             => slept[PollLoop]]_vars

C22_ZeroInvestmentSafe ==
    /\ (metrics # << >> /\ in_opps = << >>) =>
          metrics[1].total_investment = 0 /\ metrics[1].opportunity_count = 0
    /\ (metrics # << >> /\ SumSeq([i \in 1..Len(in_opps) |-> Get(in_opps[i].amount, 0)]) = 0) =>
          metrics[1].total_investment = 0 /\ metrics[1].blended_roi = 0
    /\ (scored # << >> /\ SumSeq([i \in 1..Len(in_opps) |-> Get(in_opps[i].amount, 0)]) = 0) =>
          scored[1].sub.roi = (IF Get(in_funder.roi_expected, 0) = 0 THEN 100 ELSE 30)

\* C22 witness: metrics and score were computed for two opportunities, one
\* with amount 0 and one without an amount, and a funder that expects a ROI.
C22_Witness ==
    /\ metrics # << >>
    /\ scored # << >>
    /\ Len(in_opps) = 2
    /\ in_opps[1].amount = <<0>>
    /\ in_opps[2].amount = << >>
    /\ in_opps[1].roi_expected # << >>
    /\ in_funder.roi_expected = <<10>>
    /\ metrics[1].blended_roi = 0

\* C23: the sector sub-score is 0.5 with sector_unknown when the funder names
\* no primary sector; otherwise 1.0 when every opportunity's sector is the
\* funder's, 0.6 when some are, 0.7 when none is but one is related to it,
\* and 0.2 when nothing matches, also when every opportunity's sector is
\* empty.
C23_SectorAlignmentTable ==
    scored # << >> =>
       LET primary == Lower(Get(in_funder.c_sector, ""))
           sectors == [i \in 1..Len(in_opps) |-> OppSector(in_opps[i])]
           expected ==
              IF primary = "" THEN 50
              ELSE IF \A i \in 1..Len(sectors) : sectors[i] = primary THEN 100
              ELSE IF \E i \in 1..Len(sectors) : sectors[i] = primary THEN 60
              ELSE IF \E i \in 1..Len(sectors) : sectors[i] \in related_sectors(primary) THEN 70
              ELSE 20
       IN  /\ scored[1].sub.sector = expected
           /\ primary = "" => "sector_unknown" \in Range(scored[1].criteria_met)

\* C24 (as stated): the financial-fit sub-score of every scored call is 1.0
\* when the summed investment is at least the funder's minimum_required, 0.7
\* when it is at least 80% of it and 0.3 otherwise, times 0.7 when the total
\* exceeds the funder's available amount by more than 20%, for a funder that
\* names no minimum_required (read as 0) as for any other.
C24_FinancialFitTable ==
    scored # << >> =>
       LET total == TotalInvestment(in_opps)
           minimum == Get(in_funder.minimum_required, 0)
           available == Get(in_funder.amount, 0)
           base == IF total >= minimum THEN 100
                   ELSE IF total * 10 >= minimum * 8 THEN 70 ELSE 30
       IN  scored[1].sub.financial =
              IF available > 0 /\ total * 10 > available * 12
              THEN (base * 7) \div 10 ELSE base

\* C24 (amended): the table above holds for a funder with a positive
\* minimum_required, with the warning in the 0.7 and 0.3 cases; a funder with
\* no minimum_required starts from 0.8 with no scale warning; either value is
\* multiplied by 0.7 when the funder has an available amount and the total
\* exceeds it by more than 20%.
C24_FinancialFitWithDefault ==
    scored # << >> =>
       LET total == TotalInvestment(in_opps)
           minimum == Get(in_funder.minimum_required, 0)
           available == Get(in_funder.amount, 0)
           base == IF minimum <= 0 THEN 80
                   ELSE IF total >= minimum THEN 100
                   ELSE IF total * 10 >= minimum * 8 THEN 70 ELSE 30
           below == {"slightly below minimum", "well below minimum"}
                       \cap Range(scored[1].warnings)
       IN  /\ scored[1].sub.financial =
                 IF available > 0 /\ total * 10 > available * 12
                 THEN (base * 7) \div 10 ELSE base
           /\ below = IF base = 70 THEN {"slightly below minimum"}
                      ELSE IF base = 30 THEN {"well below minimum"} ELSE {}

\* C24 witness: a funder with no minimum_required and an available amount
\* was scored on opportunities whose total exceeds that amount by more than
\* 20%, and the sub-score is 0.8 * 0.7.
C24_Witness ==
    /\ scored # << >>
    /\ in_funder.minimum_required = << >>
    /\ in_funder.amount # << >>
    /\ TotalInvestment(in_opps) * 10 > in_funder.amount[1] * 12
    /\ scored[1].sub.financial = 56

\* C25: within one run of process_match_request, messages are sent in one
\* step only, taken when find_matches has returned and ending the run: that
\* step scores nothing and writes nothing, and nothing of the run is scored
\* or written after it; every match_found of a run names a bundle whose
\* create_bundle call of that run succeeded, one message per such call of
\* high confidence; and the run's single match_result comes after each of
\* its match_found messages.
C25_NotifyAfterPersist ==
    /\ [][notifications' # notifications
          => /\ mpc = "notify" /\ mpc' = "done"
             /\ fi > Len(funding_alerts)
             /\ UNCHANGED <<bundles, create_calls, score_calls, matches_created>>]_vars
    /\ []((\E n \in 1..Len(notifications) : notifications[n].run = run) => mpc = "done")
    /\ [](\A n \in 1..Len(notifications) :
             notifications[n].type = "match_found" =>
                /\ \E i \in 1..Len(create_calls) :
                      /\ create_calls[i].run = notifications[n].run
                      /\ create_calls[i].bundle_id = notifications[n].bundle_id
                      /\ create_calls[i].ok
                      /\ \E k \in 1..Len(bundles) :
                            /\ bundles[k].run = notifications[n].run
                            /\ bundles[k].opportunity_ids = create_calls[i].opportunity_ids
                /\ \E m \in (n + 1)..Len(notifications) :
                      /\ notifications[m].type = "match_result"
                      /\ notifications[m].run = notifications[n].run)
    /\ [](\A r \in 1..MaxRuns :
             /\ Cardinality({n \in 1..Len(notifications) :
                    notifications[n].run = r /\ notifications[n].type = "match_found"})
                = Cardinality({i \in 1..Len(create_calls) :
                    /\ create_calls[i].run = r /\ create_calls[i].ok
                    /\ FGe(create_calls[i].score, Threshold080)
                    /\ \E n \in 1..Len(notifications) : notifications[n].run = r})
             /\ \A n, m \in 1..Len(notifications) :
                   (notifications[n].run = r /\ notifications[m].run = r
                      /\ notifications[m].type = "match_result")
                   => n <= m)

\* C25 witness: a finished run that persisted two bundles, sent a match_found
\* for one of them and then the match_result, while the write of another
\* candidate of the run had failed.
C25_Witness ==
    /\ mpc = "done"
    /\ Len(bundles) >= 2
    /\ \E i \in 1..Len(create_calls) : ~ create_calls[i].ok
    /\ \E n \in 1..Len(notifications) : notifications[n].type = "match_found"
    /\ notifications[Len(notifications)].type = "match_result"

\* C26: no step of a matching run (process_match_request, find_matches,
\* create_bundle) removes an alert or changes a field of one, so that a
\* second run reads the alerts the first run read; and when the second run
\* is over, every candidate the first run gave to create_bundle, the ones
\* whose write failed included, was scored and given to create_bundle again,
\* with the same score.
C26_AlertsUntouched ==
    /\ [][investment_alerts' = investment_alerts /\ funding_alerts' = funding_alerts]_vars
    /\ []((mpc = "done" /\ run >= 2) =>
            \A i \in 1..Len(create_calls) :
               create_calls[i].run = run - 1 =>
                  /\ \E f \in 1..Len(funding_alerts) :
                        /\ funding_alerts[f].id = create_calls[i].funder
                        /\ <<f, create_calls[i].opportunity_ids>> \in score_calls
                  /\ \E j \in 1..Len(create_calls) :
                        /\ create_calls[j].run = run
                        /\ create_calls[j].funder = create_calls[i].funder
                        /\ create_calls[j].opportunity_ids = create_calls[i].opportunity_ids
                        /\ create_calls[j].score = create_calls[i].score)

\* C26 witness: the write of a candidate failed in the first run, and the
\* second run, over the same alerts, has computed the candidate again and
\* persisted it.
C26_Witness ==
    /\ mpc = "done" /\ run = 2
    /\ \E i, j \in 1..Len(create_calls) :
          /\ create_calls[i].run = 1 /\ ~ create_calls[i].ok
          /\ create_calls[j].run = 2 /\ create_calls[j].ok
          /\ create_calls[j].funder = create_calls[i].funder
          /\ create_calls[j].opportunity_ids = create_calls[i].opportunity_ids

\* C27: a message on the queue of poll_and_process whose type is no
\* MessageType value, or a MessageType with no registered handler, is never
\* deleted: it is visible or in flight for as long as the loop runs, so that
\* it is back among the receivable messages after every expiry of its
\* visibility timeout; and every delivery of it, the repeated ones included,
\* ends with process_message returning False and no delete_message call.
C27_UnhandledStaysOnQueue ==
    /\ [](\A m \in MsgIds :
             (/\ queue[PollLoop][m].state # "absent"
              /\ queue[PollLoop][m].type \notin (MessageType \cap RegisteredTypes))
             => queue[PollLoop][m].state \in {"visible", "inflight"})
    /\ [][(/\ pc[PollLoop] = "process" /\ pc'[PollLoop] = "ack"
           /\ CurrentMessage(PollLoop).type \notin (MessageType \cap RegisteredTypes))
          => result'[PollLoop] \in {"bad_type", "no_handler"}]_vars
    /\ [][(/\ pc[PollLoop] = "ack" /\ pc'[PollLoop] # "ack"
           /\ CurrentMessage(PollLoop).type \notin (MessageType \cap RegisteredTypes))
          => /\ result[PollLoop] \in {"bad_type", "no_handler"}
             /\ queue' = queue]_vars

\* C27 witness: a message of an unknown type and a message of a type without
\* handler are on the queue, and process_message has just returned False for
\* the second delivery of one of them, made after its visibility timeout ran
\* out.
C27_Witness ==
    /\ pc[PollLoop] = "ack"
    /\ result[PollLoop] \in {"bad_type", "no_handler"}
    /\ queue[PollLoop][CurrentMessage(PollLoop).message_id].receive_count >= 2
    /\ \E m, k \in MsgIds :
          /\ queue[PollLoop][m].type = "bogus"
          /\ queue[PollLoop][k].type = "match_status_change"

\* C29: when process_match_request raises on a message of a batch of
\* MatchingAgent.run, the step deletes nothing, drops the rest of the batch
\* (the message and the later ones stay on the queue, unprocessed, until a
\* later receive) and leads to the next poll after a sleep; a message of the
\* queue is deleted only in the acknowledge step of a call that returned
\* True; and the loop ends at no step in which a call raised: it ends only
\* from its receive, on a KeyboardInterrupt.
C29_RaiseSkipsBatchAndPollsOn ==
    /\ [][(pc[RunLoop] = "process" /\ result'[RunLoop] = "raised")
          => /\ queue' = queue
             /\ batch'[RunLoop] = << >>
             /\ pc'[RunLoop] = "poll"
             /\ slept'[RunLoop]
             /\ \A i \in idx[RunLoop]..Len(batch[RunLoop]) :
                   queue'[RunLoop][batch[RunLoop][i].message_id].state
                      \in {"inflight", "visible"}]_vars
    /\ [][\A m \in MsgIds :
             (queue[RunLoop][m].state # "deleted" /\ queue'[RunLoop][m].state = "deleted")
             => /\ pc[RunLoop] = "ack" /\ result[RunLoop] = "ok"
                /\ CurrentMessage(RunLoop).message_id = m]_vars
    /\ [][(pc[RunLoop] # "stopped" /\ pc'[RunLoop] = "stopped")
          => /\ pc[RunLoop] = "poll"
             /\ result'[RunLoop] = result[RunLoop]
             /\ receives'[RunLoop] = receives[RunLoop]]_vars
    /\ []((pc[RunLoop] = "poll" /\ result[RunLoop] = "raised") => batch[RunLoop] = << >>)

\* C29 witness: the first receive of the loop returned two messages, the
\* call raised, both messages are in flight with one delivery each, and the
\* loop is back at its poll after the sleep.
C29_Witness ==
    /\ pc[RunLoop] = "poll"
    /\ result[RunLoop] = "raised"
    /\ slept[RunLoop]
    /\ receives[RunLoop] = 1
    /\ \A m \in 1..2 : /\ queue[RunLoop][m].state = "inflight"
                       /\ queue[RunLoop][m].receive_count = 1

\* C30: in every match_result message, total_matches is the sum of
\* high_confidence and medium_confidence, it is the number of bundle rows
\* the run persisted, and high_confidence is the number of match_found
\* messages the run sent.
C30_ResultCountsAgree ==
    \A n \in 1..Len(notifications) :
       notifications[n].type = "match_result" =>
          /\ notifications[n].total_matches =
                notifications[n].high_confidence + notifications[n].medium_confidence
          /\ notifications[n].total_matches =
                Cardinality({k \in 1..Len(bundles) : bundles[k].run = notifications[n].run})
          /\ notifications[n].high_confidence =
                Cardinality({m \in 1..Len(notifications) :
                                /\ notifications[m].run = notifications[n].run
                                /\ notifications[m].type = "match_found"})

\* C30 witness: the match_result of a run that persisted a bundle of high
\* and a bundle of medium confidence, and in which the write of another
\* candidate failed.
C30_Witness ==
    \E n \in 1..Len(notifications) :
       /\ notifications[n].type = "match_result"
       /\ notifications[n].high_confidence >= 1
       /\ notifications[n].medium_confidence >= 1
       /\ \E i \in 1..Len(create_calls) :
             create_calls[i].run = notifications[n].run /\ ~ create_calls[i].ok

\* C28: when find_matches has returned, every candidate it scored for a
\* funder with a non-empty primary sector (every single opportunity of the
\* funder's bucket, and every combination that passed the 80% pre-filter)
\* has a score of at least 0.60, and each single of the bucket was given to
\* create_bundle; and no match of the list and no row written for such a
\* funder is of low confidence.
C28_ThresholdNeverDiscards ==
    /\ mpc = "notify" =>
          \A f \in 1..Len(funding_alerts) :
             FunderSector(f) # "" =>
                /\ \A c \in score_calls :
                      c[1] = f => Qualifies(calculate_score(funding_alerts[f],
                                                            Opportunities(c[2])).score)
                /\ \A i \in 1..Len(sector_opportunities(f)) :
                      /\ <<f, <<sector_opportunities(f)[i].id>> >> \in score_calls
                      /\ \E k \in 1..Len(create_calls) :
                            /\ create_calls[k].funder = funding_alerts[f].id
                            /\ create_calls[k].opportunity_ids = <<sector_opportunities(f)[i].id>>
    /\ \A i \in 1..Len(matches_created) : matches_created[i].confidence \in {"high", "medium"}
    /\ \A k \in 1..Len(bundles) : bundles[k].confidence_level \in {"high", "medium"}

\* C28 witness: find_matches has returned for a solar funder after scoring a
\* single of score 0.6375, a combination of three opportunities that passed
\* the pre-filter, and a bucket in which one combination of two was below
\* 80% of the minimum.
C28_Witness ==
    /\ mpc = "notify"
    /\ FunderSector(1) # ""
    /\ \E c \in score_calls : Len(c[2]) = 3
    /\ \E c \in score_calls :
          /\ Len(c[2]) = 1
          /\ calculate_score(funding_alerts[1], Opportunities(c[2])).score.v = 6375
    /\ \E i, j \in 1..Len(sector_opportunities(1)) :
          /\ i < j
          /\ BelowMinimum(<<sector_opportunities(1)[i], sector_opportunities(1)[j]>>,
                          minimum_investment(1))

====
